---- MODULE Spec2Model ----
(***************************************************************************)
(* Model of the heuristic document-structure inference engine of           *)
(* ePDF-Analyzer: header inference and table normalization                 *)
(* (table_extractor.py), table classification (document_templates.py),     *)
(* sender/recipient segmentation (pdf_reader.py), schema-driven field      *)
(* extraction with type coercion (custom_extractor.py), the template       *)
(* registry, the analysis entry point (pdf_analyzer.py), the upload        *)
(* endpoints (main.py), the language-model service singleton               *)
(* (llm_service.py) and the invoice extractor (invoice_extractor.py).      *)
(*                                                                         *)
(* Python strings are modelled as sequences of one-character tokens, so    *)
(* that strip(), lower(), replace(), split(), isdigit() and substring      *)
(* tests are computed as the code computes them.  Characters outside       *)
(* ASCII are written as named tokens ("i_dotless", "I_dot", ...).          *)
(***************************************************************************)
EXTENDS Integers, Sequences, FiniteSets, TLC

VARIABLES
    \* --- table pipeline (table_extractor.py) ---
    table,        \* raw grid handed over by the table-geometry layer
    typeOrder,    \* iteration order of a set of cell-type strings in this process
    tpc,          \* "grid" | "df" | "skipped" | "raised" | "rec"
    exc,          \* the exception that ended the extraction: "IndexError", "ValueError" or "none"
    has_header,   \* header decision taken by _extract_tables_pdfplumber
    hdr_mode,     \* how it was taken: "forced" | "inferred" | "default" ("none" before)
    df,           \* the cleaned DataFrame (columns, rows, attrs)
    rec,          \* the record returned by table_to_dict
    \* --- table classification (document_templates.py) ---
    tables,       \* the normalized tables handed to the classifier, in input order
    totals_res,   \* result of _find_totals_table: position in tables, 0 for None, -1 before the call
    items_res,    \* result of _find_line_items_table: position in tables, 0 for None, -1 before the call
    \* --- sender/recipient segmentation (pdf_reader.py) ---
    blocks,       \* the text blocks of the page, in page order
    spc,          \* "page" | "done"
    segments,     \* the result of extract_sender_recipient_blocks
    \* --- type coercion (custom_extractor.py, _convert_type) ---
    value,        \* the extracted string handed to _convert_type
    kpc,          \* "value" | "done"
    converted,    \* what _convert_type returned
    \* --- schema-driven extraction (custom_extractor.py) ---
    schema,       \* the fields of the template schema, in order
    fidx,         \* position of the field the loop is at
    data,         \* result["data"]: the value of field i at position i
    xpc,          \* "closed" | "fields" | "returned" | "raised"
    xexc,         \* the exception that left extract_with_schema
    pdf_open,     \* whether the PDF is open
    llm_loaded,   \* LLMService.is_available(): the model and its processor were loaded
    \* --- typed coercion (custom_extractor.py, _convert_type for every type) ---
    pvalue,       \* the value handed to _convert_type
    ptype,        \* the field type
    pprops,       \* the properties of an object field, [name, type] each
    presult,      \* what _convert_type returned
    presult2,     \* what _convert_type returned for presult
    ppc,          \* "value", "done", "redone"
    \* --- template manager (document_templates.py, DocumentTemplateManager) ---
    registry,     \* self.templates: the registered templates, in registration order
    m_op,         \* the last call: "idle", "detect", "extract"
    m_tid,        \* template_id of the last extract_data call
    m_text,       \* text of the last call
    m_tables,     \* tables of the last extract_data call
    m_detected,   \* what detect_document_type returned ("<None>" for None)
    m_extracted,  \* what extract_data returned
    m_exc,        \* the exception that left the last call
    LLM_AVAILABLE, \* the module flag of document_templates.py: the model was loaded at import
    \* --- document extraction (TableExtractor.extract_all_tables, PDFAnalyzer.extract_basic_analysis) ---
    doc,          \* the raw grids pdfplumber finds, page by page
    d_order,      \* iteration order of set(data_types) in the process
    d_mode,       \* the call: "none", "extract_all_tables", "extract_basic_analysis"
    d_page,       \* the page the loop is at
    d_result,     \* the tables collected so far, page by page
    d_pc,         \* "idle", "ready", "pages", "returned", "raised"
    d_exc,        \* the exception that left the call
    \* --- template extraction of a PDF (pdf_analyzer.py, PDFAnalyzer.extract_with_template) ---
    a_templates,  \* template_manager.templates, in registration order
    a_tid,        \* template_id: the argument, then the detected id ("<None>" for None)
    a_text,       \* the text of the PDF, all pages joined
    a_readable,   \* whether reader.extract_text() succeeds on the PDF
    a_gathered,   \* the optional inputs that were extracted: blocks, metadata, tables
    a_pc,         \* "idle", "start", "text", "template", "gathered", "returned", "raised"
    a_exc,        \* the exception that left extract_with_template
    a_cause,      \* the exception the handlers of lines 503-512 caught
    a_result,     \* the status of the returned result
    \* --- HTTP endpoints that take a PDF upload (main.py, validators.py) ---
    h_endpoint,   \* the route of the request
    h_filename,   \* file.filename (None when the upload has no filename)
    h_content_type, \* file.content_type ("<None>" when the part has none)
    h_template,   \* the template form field of /api/v1/extract/custom
    h_pc,         \* "idle", "received", "validated", "parsed", "responded"
    h_raised,     \* the class of the exception raised inside the try of the handler
    h_status,     \* the HTTP status of the response, 0 before
    \* --- the LLMService singleton and its callers (llm_service.py) ---
    _instance,    \* LLMService._instance: 0 for None, otherwise the number of the object
    _initialized, \* LLMService._initialized
    _llm_service_instance, \* the module global read by get_llm_service: 0 for None
    l_objects,    \* how many LLMService objects were allocated
    l_loads,      \* how many times _load_model was executed
    l_model,      \* per object: "unset", "None" (load failed) or "loaded"
    l_pc,         \* per caller: the statement it is at
    l_self,       \* per caller: the object __new__ returned to it
    l_via,        \* per caller: "LLMService" or "get_llm_service"
    l_calls,      \* per caller: how many calls it has started
    l_yielded,    \* the objects yielded by the calls that returned
    \* --- sender/recipient extraction with the generative model (invoice_extractor.py) ---
    i_available,  \* self.llm.is_available()
    i_layout,     \* header_layout, the text of the invoice header
    i_text,       \* the text handed to the last call of extract_single_entity
    i_pc,         \* "idle", "start", "combined", "fallback_sender", "fallback_recipient", "returned", "raised"
    i_calls,      \* how many times self.llm.generate was called in this invocation
    i_response,   \* what the last call of generate did
    i_sender,     \* sender_info of _fallback_separate_extraction
    i_result,     \* the mapping extract_sender_and_recipient returned
    i_exc         \* the exception that left extract_sender_and_recipient

tvars == <<table, typeOrder, tpc, exc, has_header, hdr_mode, df, rec>>
cvars == <<tables, totals_res, items_res>>
svars == <<blocks, spc, segments>>
kvars == <<value, kpc, converted>>
xvars == <<schema, fidx, data, xpc, xexc, pdf_open, llm_loaded>>
pvars == <<pvalue, ptype, pprops, presult, presult2, ppc>>
mvars == <<registry, m_op, m_tid, m_text, m_tables, m_detected, m_extracted, m_exc, LLM_AVAILABLE>>
dvars == <<doc, d_order, d_mode, d_page, d_result, d_pc, d_exc>>
avars == <<a_templates, a_tid, a_text, a_readable, a_gathered, a_pc, a_exc, a_cause, a_result>>
hvars == <<h_endpoint, h_filename, h_content_type, h_template, h_pc, h_raised, h_status>>
lvars == <<_instance, _initialized, _llm_service_instance, l_objects, l_loads, l_model, l_pc, l_self, l_via, l_calls, l_yielded>>
ivars == <<i_available, i_layout, i_text, i_pc, i_calls, i_response, i_sender, i_result, i_exc>>
vars == <<tvars, cvars, svars, kvars, xvars, pvars, mvars, dvars, avars, hvars, lvars, ivars>>

(***************************************************************************)
(* Python values and string primitives                                     *)
(***************************************************************************)
\* Python's None, kept distinct from every string (a one-token sequence whose
\* token is no character).
None == <<"<None>">>

Digits == {"0","1","2","3","4","5","6","7","8","9"}
Whitespace == {" ", "\n", "\t"}

\* str.lower() of the ASCII capitals.
LowerOf ==
    [A |-> "a", B |-> "b", C |-> "c", D |-> "d", E |-> "e", F |-> "f", G |-> "g",
     H |-> "h", I |-> "i", J |-> "j", K |-> "k", L |-> "l", M |-> "m", N |-> "n",
     O |-> "o", P |-> "p", Q |-> "q", R |-> "r", S |-> "s", T |-> "t", U |-> "u",
     V |-> "v", W |-> "w", X |-> "x", Y |-> "y", Z |-> "z"]

\* str(x): None prints as the four characters N o n e.
Str(x) == IF x = None THEN <<"N","o","n","e">> ELSE x

\* bool(x) for a cell: None and '' are falsy.
Truthy(x) == x # None /\ x # <<>>

\* str.lower() of one character; 'I_dot' (U+0130) lowers to 'i' followed by
\* a combining dot, as in CPython.
LowerChar(c) ==
    IF c \in DOMAIN LowerOf THEN <<LowerOf[c]>>
    ELSE IF c = "I_dot" THEN <<"i", "dot_above">>
    ELSE IF c = "S_cedilla" THEN <<"s_cedilla">>
    ELSE IF c = "O_uml" THEN <<"o_uml">>
    ELSE IF c = "U_uml" THEN <<"u_uml">>
    ELSE <<c>>

RECURSIVE Lower(_)
Lower(s) == IF s = <<>> THEN <<>> ELSE LowerChar(Head(s)) \o Lower(Tail(s))

RECURSIVE LStrip(_)
LStrip(s) == IF s # <<>> /\ Head(s) \in Whitespace THEN LStrip(Tail(s)) ELSE s

RECURSIVE RStrip(_)
RStrip(s) ==
    IF s # <<>> /\ s[Len(s)] \in Whitespace THEN RStrip(SubSeq(s, 1, Len(s) - 1)) ELSE s

\* str.strip()
Strip(s) == RStrip(LStrip(s))

\* sub in s
Contains(sub, s) ==
    \/ sub = <<>>
    \/ \E i \in 0..(Len(s) - Len(sub)) :
           s[i + 1] = sub[1] /\ SubSeq(s, i + 1, i + Len(sub)) = sub

\* s.endswith(c) for a single character c
EndsWith(s, c) == s # <<>> /\ s[Len(s)] = c

\* s.replace(c, '')
RemoveAll(s, c) == SelectSeq(s, LAMBDA x : x # c)

\* s.replace(c, '', 1)
RemoveFirst(s, c) ==
    IF \E i \in 1..Len(s) : s[i] = c
    THEN LET k == CHOOSE i \in 1..Len(s) : s[i] = c /\ \A j \in 1..(i - 1) : s[j] # c
         IN  SubSeq(s, 1, k - 1) \o SubSeq(s, k + 1, Len(s))
    ELSE s

\* s.replace(c, d) for single characters
ReplaceChar(s, c, d) == [i \in 1..Len(s) |-> IF s[i] = c THEN d ELSE s[i]]

\* s.isdigit()
IsDigit(s) == s # <<>> /\ \A i \in 1..Len(s) : s[i] \in Digits

\* s.split(c) for a single character c
RECURSIVE Split(_, _)
Split(s, c) ==
    IF \E i \in 1..Len(s) : s[i] = c
    THEN LET k == CHOOSE i \in 1..Len(s) : s[i] = c /\ \A j \in 1..(i - 1) : s[j] # c
         IN  <<SubSeq(s, 1, k - 1)>> \o Split(SubSeq(s, k + 1, Len(s)), c)
    ELSE <<s>>

Range(f) == {f[i] : i \in DOMAIN f}

(***************************************************************************)
(* HeaderInferenceEngine: TableExtractor._detect_header                    *)
(***************************************************************************)
\* Number of data rows _detect_header samples (data_rows[:5]).
DataRowSample == 5

\* kv_indicators of the 2-column key-value special case.
kv_indicators == <<
    <<"t","a","r","i","h">>,
    <<"f","a","t","u","r","a">>,
    <<"n","o">>,
    <<"t","u","t","a","r">>,
    <<"t","o","p","l","a","m">>,
    <<"o_uml","d","e","m","e">>,
    <<"k","d","v">>,
    <<"m","a","t","r","a","h">>,
    <<"v","e","r","g","i">>,
    <<"i","s","k","o","n","t","o">>,
    <<"d","a","t","e">>,
    <<"t","o","t","a","l">>,
    <<"a","m","o","u","n","t">> >>

\* real_header_keywords of the keyword signal.
real_header_keywords == <<
    <<"s","i_dotless","r","a">>,
    <<"s","i","r","a">>,
    <<"n","o">>,
    <<"a","d">>,
    <<"s","o","y","a","d">>,
    <<"i","s","i","m">>,
    <<"n","a","m","e">>,
    <<"m","i","k","t","a","r">>,
    <<"a","d","e","t">>,
    <<"q","u","a","n","t","i","t","y">>,
    <<"b","i","r","i","m">>,
    <<"f","i","y","a","t">>,
    <<"p","r","i","c","e">>,
    <<"u_uml","r","u_uml","n">>,
    <<"p","r","o","d","u","c","t">>,
    <<"h","i","z","m","e","t">>,
    <<"a","c_cedilla","i_dotless","k","l","a","m","a">>,
    <<"d","e","s","c","r","i","p","t","i","o","n">>,
    <<"k","a","t","e","g","o","r","i">>,
    <<"c","a","t","e","g","o","r","y">>,
    <<"k","o","d">>,
    <<"c","o","d","e">>,
    <<"d","u","r","u","m">>,
    <<"s","t","a","t","u","s">> >>

CellTypes == {"empty", "number", "date", "text"}

\* get_cell_type(cell); "IndexError" stands for the exception raised by
\* cell_str[0] on an empty cell_str.
get_cell_type(cell) ==
    IF ~Truthy(cell) \/ Strip(Str(cell)) = <<>> THEN "empty"
    ELSE LET cell_str == RemoveFirst(RemoveFirst(RemoveFirst(
                             RemoveAll(Strip(Str(cell)), ","), "."), "-"), "+")
         IN  IF IsDigit(RemoveFirst(cell_str, ".")) THEN "number"
             ELSE IF cell_str = <<>> THEN "IndexError"
             ELSE IF cell_str[1] \in {"-", "+"}
                     /\ IsDigit(RemoveFirst(Tail(cell_str), ".")) THEN "number"
             ELSE IF (Contains(<<"/">>, Str(cell)) \/ Contains(<<"-">>, Str(cell)))
                     /\ LET parts == Split(ReplaceChar(Str(cell), "/", "-"), "-")
                        IN  Len(parts) >= 2 /\ \E i \in 1..Len(parts) : IsDigit(parts[i])
                  THEN "date"
             ELSE "text"

\* data_types.count(t)
CountOf(seq, t) == Cardinality({i \in 1..Len(seq) : seq[i] = t})

\* max(set(data_types), key=data_types.count): the first element, in the
\* iteration order of the set, whose count is maximal.
most_common_data_type(data_types, order) ==
    LET present == {i \in 1..Len(order) : CountOf(data_types, order[i]) > 0}
        best == CHOOSE i \in present :
                    /\ \A j \in present :
                           CountOf(data_types, order[j]) <= CountOf(data_types, order[i])
                    /\ \A j \in present :
                           (j < i) => CountOf(data_types, order[j]) < CountOf(data_types, order[i])
    IN  order[best]

\* ' '.join(parts)
RECURSIVE JoinSpace(_)
JoinSpace(parts) ==
    IF parts = <<>> THEN <<>>
    ELSE IF Len(parts) = 1 THEN parts[1]
    ELSE parts[1] \o <<" ">> \o JoinSpace(Tail(parts))

\* The special case without its test of the colons.
KeyValueTable_NoColons(tbl) ==
    LET all_rows_similar == \A i \in 1..Len(tbl) :
                                Len(tbl[i]) = 2 => (Truthy(tbl[i][1]) /\ Truthy(tbl[i][2]))
        first_col_first == Lower(Strip(Str(tbl[1][1])))
    IN  /\ all_rows_similar
        /\ Len(tbl) > 2
        /\ \E k \in 1..Len(kv_indicators) : Contains(kv_indicators[k], first_col_first)

\* The 2-column key-value special case (lines 302-331): TRUE when it returns False.
KeyValueTable(tbl) ==
    LET first_row == tbl[1]
        first_col_values == [i \in 1..Len(SelectSeq(tbl, LAMBDA row : Len(row) >= 1)) |->
                                Strip(Str(SelectSeq(tbl, LAMBDA row : Len(row) >= 1)[i][1]))]
        colon_count == Cardinality({i \in 1..Len(first_col_values) :
                                        EndsWith(first_col_values[i], ":")})
        all_rows_similar == \A i \in 1..Len(tbl) :
                                Len(tbl[i]) = 2 => (Truthy(tbl[i][1]) /\ Truthy(tbl[i][2]))
        first_col_first == Lower(Strip(Str(first_row[1])))
    IN  \/ 10 * colon_count >= 7 * Len(first_col_values)
        \/ /\ all_rows_similar
           /\ Len(tbl) > 2
           /\ \E k \in 1..Len(kv_indicators) : Contains(kv_indicators[k], first_col_first)

\* The data rows whose cells are typed: the first five, those as wide as the first row.
SampledRows(tbl) ==
    SelectSeq(SubSeq(tbl, 2, IF Len(tbl) - 1 > DataRowSample THEN DataRowSample + 1 ELSE Len(tbl)),
              LAMBDA row : Len(row) = Len(tbl[1]))

\* type_mismatches (lines 366-383)
type_mismatches(tbl, order) ==
    LET first_row == tbl[1]
        rows == SampledRows(tbl)
        data_types(c) == [r \in 1..Len(rows) |-> get_cell_type(rows[r][c])]
    IN  Cardinality({c \in 1..Len(first_row) :
            /\ Len(rows) > 0
            /\ get_cell_type(first_row[c]) = "text"
            /\ most_common_data_type(data_types(c), order) \in {"number", "date"}})

\* keyword_matches (lines 391-400)
keyword_matches(first_row) ==
    LET cells == SelectSeq(first_row, Truthy)
        first_row_text == JoinSpace([i \in 1..Len(cells) |-> Lower(Str(cells[i]))])
    IN  Cardinality({k \in 1..Len(real_header_keywords) :
                        Contains(real_header_keywords[k], first_row_text)})

\* A type-shift test that accepts half of the columns and 2-column grids.
TypeShiftHeader_HalfOfTwo(mismatches, width) == 2 * mismatches >= width /\ width >= 2

\* The type-shift test of line 386.
TypeShiftHeader(mismatches, width) == 2 * mismatches > width /\ width >= 3

\* Some cell typed by _detect_header makes get_cell_type raise.
CellTypeRaises(tbl) ==
    \/ \E c \in 1..Len(tbl[1]) : get_cell_type(tbl[1][c]) = "IndexError"
    \/ \E r \in 1..Len(SampledRows(tbl)) : \E c \in 1..Len(tbl[1]) :
           get_cell_type(SampledRows(tbl)[r][c]) = "IndexError"

\* The early returns of lines 293-331: TRUE when _detect_header returns False
\* before it types any cell.
EarlyNoHeader(tbl) ==
    \/ Len(tbl) < 2
    \/ tbl[1] = <<>>
    \/ Len(tbl[1]) = 2 /\ KeyValueTable(tbl)

\* TableExtractor._detect_header(table) ends in an exception (IndexError).
detect_header_raises(tbl) == ~EarlyNoHeader(tbl) /\ CellTypeRaises(tbl)

\* TableExtractor._detect_header(table), when it returns.
\* order is the iteration order of set(data_types) in the running process.
_detect_header(tbl, order) ==
    IF EarlyNoHeader(tbl) THEN FALSE
    ELSE IF TypeShiftHeader(type_mismatches(tbl, order), Len(tbl[1])) THEN TRUE
    ELSE IF Len(tbl[1]) >= 3 /\ keyword_matches(tbl[1]) >= 2 THEN TRUE
    ELSE FALSE

(***************************************************************************)
(* TableNormalizer: DataFrame construction, _clean_dataframe, table_to_dict *)
(***************************************************************************)
\* settings.TABLE_MIN_ROWS, settings.TABLE_MIN_COLS
TABLE_MIN_ROWS == 2
TABLE_MIN_COLS == 2

DigitChar == <<"1","2","3","4","5","6","7","8","9">>

\* f"Column_{i+1}" (i+1 below 10 in every grid of the model)
GenericName(i) == <<"C","o","l","u","m","n","_", DigitChar[i]>>

GenericNames(n) == [i \in 1..n |-> GenericName(i)]

RECURSIVE MaxWidth(_)
MaxWidth(rows) ==
    IF rows = <<>> THEN 0
    ELSE LET rest == MaxWidth(Tail(rows))
         IN  IF Len(Head(rows)) > rest THEN Len(Head(rows)) ELSE rest

\* pandas pads the short rows of a list of lists with None.
PadRows(rows, w) ==
    [r \in 1..Len(rows) |-> [c \in 1..w |-> IF c <= Len(rows[r]) THEN rows[r][c] ELSE None]]

\* pd.DataFrame(table[1:], columns=table[0]) raises ValueError when the widest
\* data row and the header row differ in width.
FrameRaises(tbl, hh) == hh /\ Len(tbl[1]) # MaxWidth(Tail(tbl))

\* Lines 118-124: the DataFrame built from the grid under the header decision.
BuildFrame(tbl, hh) ==
    IF hh THEN [columns |-> tbl[1], rows |-> PadRows(Tail(tbl), Len(tbl[1]))]
    ELSE [columns |-> GenericNames(MaxWidth(tbl)), rows |-> PadRows(tbl, MaxWidth(tbl))]

\* x.str.strip().str.len() of a cell after fillna('') and astype(str)
Blank(cell) == ~Truthy(cell) \/ Strip(Str(cell)) = <<>>

\* The positions 1..n of an axis, as a sequence to filter.
Positions(n) == [i \in 1..n |-> i]

\* df[col] is a Series only when the label col occurs once among the columns.
UniqueLabel(columns, c) == \A j \in 1..Len(columns) : columns[j] = columns[c] => j = c

\* TableExtractor._clean_dataframe(df)
_clean_dataframe(d) ==
    IF d.rows = <<>> \/ d.columns = <<>> THEN d
    ELSE LET filled == [r \in 1..Len(d.rows) |->
                          [c \in 1..Len(d.columns) |->
                              IF d.rows[r][c] = None THEN <<>> ELSE d.rows[r][c]]]
             rowIdx == SelectSeq(Positions(Len(filled)),
                                 LAMBDA r : \E c \in 1..Len(d.columns) : ~Blank(filled[r][c]))
             colIdx == IF rowIdx = <<>> THEN [c \in 1..Len(d.columns) |-> c]
                       ELSE SelectSeq(Positions(Len(d.columns)),
                                      LAMBDA c : \E i \in 1..Len(rowIdx) : ~Blank(filled[rowIdx[i]][c]))
             cols == [j \in 1..Len(colIdx) |-> d.columns[colIdx[j]]]
         IN  [columns |-> [j \in 1..Len(cols) |-> Strip(Str(cols[j]))],
              rows |-> [i \in 1..Len(rowIdx) |->
                          [j \in 1..Len(colIdx) |->
                              IF UniqueLabel(cols, j)
                              THEN Strip(filled[rowIdx[i]][colIdx[j]])
                              ELSE filled[rowIdx[i]][colIdx[j]]]]]

\* The header names need repair (lines 219-223).
\* A test that never finds a duplicate.
has_duplicates_Never(headers) == FALSE

has_duplicates(headers) == Len(headers) # Cardinality(Range(headers))

has_none_or_empty(headers) ==
    \E i \in 1..Len(headers) :
        Lower(Str(headers[i])) \in {<<"n","o","n","e">>, <<"n","a","n">>, <<>>}

\* A repair test that overlooks duplicate names.
NeedsRepair_NoDuplicateCheck(headers) == has_none_or_empty(headers)

NeedsRepair(headers) == has_duplicates(headers) \/ has_none_or_empty(headers)

\* df.to_dict('records'): one mapping per row, keyed by column label; of two
\* columns with the same label the later one is kept.
ToRecords(columns, rows) ==
    [r \in 1..Len(rows) |->
        [h \in Range(columns) |->
            rows[r][CHOOSE j \in 1..Len(columns) :
                        columns[j] = h /\ \A k \in 1..Len(columns) : columns[k] = h => k <= j]]]

\* Python's None where a list of strings is expected ("headers": None).
NoneList == <<None>>

NoRecord ==
    [has_header |-> FALSE, headers |-> NoneList, rows |-> <<>>,
     row_count |-> 0, col_count |-> 0, note |-> "<no record>"]

\* TableExtractor.table_to_dict(df); hh is df.attrs['has_header'].
table_to_dict(d, hh) ==
    IF d.rows = <<>> \/ d.columns = <<>>
    THEN [has_header |-> FALSE, headers |-> NoneList, rows |-> <<>>,
          row_count |-> 0, col_count |-> 0, note |-> "Empty table"]
    ELSE IF NeedsRepair(d.columns)
    THEN [has_header |-> FALSE,
          headers |-> GenericNames(Len(d.columns)),
          rows |-> ToRecords(GenericNames(Len(d.columns)), d.rows),
          row_count |-> Len(d.rows), col_count |-> Len(d.columns),
          note |-> "Table had duplicate or invalid column names, generic names were assigned"]
    ELSE [has_header |-> hh,
          headers |-> d.columns,
          rows |-> ToRecords(d.columns, d.rows),
          row_count |-> Len(d.rows), col_count |-> Len(d.columns),
          note |-> IF hh THEN "<absent>"
                   ELSE "Table has no header row, generic column names were assigned"]

(***************************************************************************)
(* The table pipeline as a state machine                                   *)
(***************************************************************************)
\* Largest number of rows of a raw grid.
MaxRows == 3

S_Name == <<"N","a","m","e">>
S_Amount == <<"A","m","o","u","n","t">>
S_Ali == <<"A","l","i">>
S_Veli == <<"V","e","l","i">>
S_120_50 == <<"1","2","0",".","5","0">>
S_75_00 == <<"7","5",".","0","0">>
S_TarihColon == <<"T","a","r","i","h",":">>
S_Tutar == <<"T","u","t","a","r">>
S_ToplamColon == <<"T","o","p","l","a","m",":">>
S_Kod == <<"K","o","d">>

\* The rows a raw grid is made of: text, labels ending in ':', numbers, None,
\* blank and sign-only cells, in rows of two and of three cells.
RowPool == {
    <<S_Name, S_Amount>>,
    <<S_Ali, S_120_50>>,
    <<S_Veli, S_75_00>>,
    <<S_TarihColon, <<"1">>>>,
    <<S_ToplamColon, <<"-">>>>,
    <<<<"A"," ">>, <<"A">>>>,
    <<None, <<" ">>>>,
    <<<<"N","o">>, <<"A","d">>, S_Tutar>>,
    <<<<"1">>, S_Ali, S_120_50>>,
    <<S_Kod, S_Kod, <<"x">>>>,
    <<<<"-">>, <<"1">>, <<"2">>>>,
    <<<<"x">>, <<>>, <<" ","1">>>> }

Grids == UNION {[1..n -> RowPool] : n \in 1..MaxRows}

\* Iteration orders of a set of cell-type strings (they vary with the hash
\* seed of the process).
TypeOrders == {
    <<"empty", "number", "date", "text">>,
    <<"text", "date", "number", "empty">> }

(***************************************************************************)
(* Each component runs on its own input; while one is exercised the state  *)
(* of the others stays as constructed.                                     *)
(***************************************************************************)
NoFrame == [columns |-> <<>>, rows |-> <<>>]

TableIdle ==
    /\ table = <<>>
    /\ typeOrder = <<>>
    /\ tpc = "idle"
    /\ exc = "none"
    /\ has_header = FALSE
    /\ hdr_mode = "none"
    /\ df = NoFrame
    /\ rec = NoRecord

ClassifierIdle ==
    /\ tables = <<>>
    /\ totals_res = -1
    /\ items_res = -1

NoSegments == [sender_blocks |-> <<>>, recipient_blocks |-> <<>>]

SegmenterIdle ==
    /\ blocks = <<>>
    /\ spc = "idle"
    /\ segments = NoSegments

\* What _convert_type returns for type 'number': None or a float, written
\* as the decimal mant / 10^scale.
NoneValue == [kind |-> "None", mant |-> 0, scale |-> 0]

CoercerIdle ==
    /\ value = <<>>
    /\ kpc = "idle"
    /\ converted = NoneValue

ExtractorIdle ==
    /\ schema = <<>>
    /\ fidx = 0
    /\ data = <<>>
    /\ xpc = "idle"
    /\ xexc = "none"
    /\ pdf_open = FALSE
    /\ llm_loaded = FALSE

TypedIdle ==
    /\ pvalue = NoneValue
    /\ ptype = "string"
    /\ pprops = <<>>
    /\ presult = NoneValue
    /\ presult2 = NoneValue
    /\ ppc = "idle"

ManagerIdle ==
    /\ registry = <<>>
    /\ m_op = "idle"
    /\ m_tid = "<none>"
    /\ m_text = <<>>
    /\ m_tables = <<>>
    /\ m_detected = "<None>"
    /\ m_extracted = [sender |-> <<>>, recipient |-> <<>>, invoice_metadata |-> <<>>,
                      totals |-> <<>>, line_items |-> <<>>]
    /\ m_exc = "none"
    /\ LLM_AVAILABLE = FALSE

DocumentIdle ==
    /\ doc = <<>>
    /\ d_order = <<>>
    /\ d_mode = "none"
    /\ d_page = 0
    /\ d_result = <<>>
    /\ d_pc = "idle"
    /\ d_exc = "none"

AnalyzerIdle ==
    /\ a_templates = <<>>
    /\ a_tid = "<None>"
    /\ a_text = <<>>
    /\ a_readable = FALSE
    /\ a_gathered = {}
    /\ a_pc = "idle"
    /\ a_exc = "none"
    /\ a_cause = "none"
    /\ a_result = "none"

EndpointIdle ==
    /\ h_endpoint = "none"
    /\ h_filename = None
    /\ h_content_type = "<None>"
    /\ h_template = <<>>
    /\ h_pc = "idle"
    /\ h_raised = "none"
    /\ h_status = 0

ServiceIdle ==
    /\ _instance = 0
    /\ _initialized = FALSE
    /\ _llm_service_instance = 0
    /\ l_objects = 0
    /\ l_loads = 0
    /\ l_model = <<>>
    /\ l_pc = <<>>
    /\ l_self = <<>>
    /\ l_via = <<>>
    /\ l_calls = <<>>
    /\ l_yielded = {}

InvoiceIdle ==
    /\ i_available = FALSE
    /\ i_layout = <<>>
    /\ i_text = <<>>
    /\ i_pc = "idle"
    /\ i_calls = 0
    /\ i_response = "none"
    /\ i_sender = <<>>
    /\ i_result = <<>>
    /\ i_exc = "none"

TableInit ==
    /\ table \in Grids
    /\ typeOrder \in TypeOrders
    /\ tpc = "grid"
    /\ exc = "none"
    /\ has_header = FALSE
    /\ hdr_mode = "none"
    /\ df = NoFrame
    /\ rec = NoRecord
    /\ ClassifierIdle
    /\ SegmenterIdle
    /\ CoercerIdle
    /\ ExtractorIdle
    /\ TypedIdle
    /\ ManagerIdle
    /\ DocumentIdle
    /\ AnalyzerIdle
    /\ EndpointIdle
    /\ ServiceIdle
    /\ InvoiceIdle

\* One iteration of the loop of _extract_tables_pdfplumber (lines 105-134) for
\* the grid, with the caller's assume_first_row_header ("None", "True",
\* "False") and auto_detect_header.
ExtractTable(assume, auto) ==
    /\ tpc = "grid"
    /\ UNCHANGED <<table, typeOrder, rec, cvars, svars, kvars, xvars, pvars, mvars, dvars, avars, hvars, lvars, ivars>>
    /\ IF Len(table) < TABLE_MIN_ROWS
       THEN /\ tpc' = "skipped"
            /\ UNCHANGED <<exc, has_header, hdr_mode, df>>
       ELSE /\ hdr_mode' = IF assume # "None" THEN "forced"
                           ELSE IF auto THEN "inferred" ELSE "default"
            /\ IF assume = "None" /\ auto /\ detect_header_raises(table)
               THEN /\ tpc' = "raised"
                    /\ exc' = "IndexError"
                    /\ UNCHANGED <<has_header, df>>
               ELSE LET hh == IF assume # "None" THEN assume = "True"
                              ELSE IF auto THEN _detect_header(table, typeOrder)
                              ELSE FALSE
                    IN  /\ has_header' = hh
                        /\ IF FrameRaises(table, hh)
                           THEN /\ tpc' = "raised"
                                /\ exc' = "ValueError"
                                /\ UNCHANGED df
                           ELSE LET cleaned == _clean_dataframe(BuildFrame(table, hh))
                                IN  /\ df' = cleaned
                                    /\ exc' = "none"
                                    /\ tpc' = IF Len(cleaned.columns) >= TABLE_MIN_COLS
                                              THEN "df" ELSE "skipped"

\* table_to_dict on an extracted DataFrame (tables_to_dict, lines 268-273).
TableToDict ==
    /\ tpc = "df"
    /\ rec' = table_to_dict(df, has_header)
    /\ tpc' = "rec"
    /\ UNCHANGED <<table, typeOrder, exc, has_header, hdr_mode, df, cvars, svars, kvars, xvars, pvars, mvars, dvars, avars, hvars, lvars, ivars>>

TableNext ==
    \/ \E assume \in {"None", "True", "False"}, auto \in BOOLEAN : ExtractTable(assume, auto)
    \/ TableToDict

SpecTable == TableInit /\ [][TableNext]_vars

(***************************************************************************)
(* Properties of header inference and table normalization                  *)
(***************************************************************************)
\* C2: _detect_header never raises, whatever the cells of the grid contain
\* and whatever the widths of its rows.
C2_InferNeverRaises == ~(tpc = "raised" /\ hdr_mode = "inferred" /\ exc = "IndexError")

\* Every row mapping of the record has exactly col_count entries.
RowsHaveColCount(r) ==
    \A i \in 1..Len(r.rows) : Cardinality(DOMAIN r.rows[i]) = r.col_count

\* C3 (as claimed): every record returned by table_to_dict, the empty-table
\* record included, has a header list of length col_count and row mappings
\* of exactly col_count entries.
C3_RecordShape ==
    tpc = "rec" =>
        /\ rec.headers # NoneList
        /\ Len(rec.headers) = rec.col_count
        /\ RowsHaveColCount(rec)

\* C3 (amended): every record that is not the empty-table record has
\* len(headers) = col_count and row mappings of exactly col_count entries;
\* the empty-table record has headers None, col_count 0 and no rows.
C3_RecordShapeNonEmpty ==
    tpc = "rec" =>
        IF rec.note = "Empty table"
        THEN rec.headers = NoneList /\ rec.col_count = 0 /\ rec.rows = <<>>
        ELSE /\ rec.headers # NoneList
             /\ Len(rec.headers) = rec.col_count
             /\ RowsHaveColCount(rec)

\* A record whose duplicate header names were repaired has been returned.
C3_Witness ==
    /\ tpc = "rec"
    /\ has_duplicates(df.columns)
    /\ rec.col_count >= 2
    /\ rec.row_count >= 1

RECURSIVE Flatten(_)
Flatten(rows) == IF rows = <<>> THEN <<>> ELSE Head(rows) \o Flatten(Tail(rows))

\* The non-blank cell values of a grid after whitespace trim, in row-major order.
TrimmedCells(grid) ==
    SelectSeq(Flatten([r \in 1..Len(grid) |->
                          [c \in 1..Len(grid[r]) |->
                              IF grid[r][c] = None THEN <<>> ELSE Strip(grid[r][c])]]),
              LAMBDA v : v # <<>>)

\* The grid read back from a record: its header names when it has a header
\* row, then the values of every row mapping in header order.
RecoveredGrid(r) ==
    (IF r.has_header THEN <<r.headers>> ELSE <<>>)
        \o [i \in 1..Len(r.rows) |-> [j \in 1..Len(r.headers) |-> r.rows[i][r.headers[j]]]]

SameWidth(grid) == \A i \in 1..Len(grid) : Len(grid[i]) = Len(grid[1])

\* C4: round trip - for a grid whose rows all have the same width and either
\* header decision, every non-blank cell value of the grid (trimmed) is read
\* back from the record, in the same order, none lost.
C4_RoundTrip ==
    (tpc = "rec" /\ SameWidth(table)) =>
        TrimmedCells(RecoveredGrid(rec)) = TrimmedCells(table)

NameAmountGrid == << <<S_Name, S_Amount>>, <<S_Ali, S_120_50>>, <<S_Veli, S_75_00>> >>

\* C6 (as claimed): for the grid [Name, Amount], [Ali, 120.50], [Veli, 75.00]
\* header inference returns true.
C6_NameAmountInferredHeader ==
    (table = NameAmountGrid /\ hdr_mode = "inferred" /\ tpc = "df") => has_header = TRUE

\* C6 (amended): for that grid header inference returns false - one of its
\* two columns is text over number, which is not more than half of them, and
\* a header is inferred only for grids of at least three columns.
C6_NameAmountNoHeader ==
    (table = NameAmountGrid /\ hdr_mode = "inferred" /\ tpc = "df") => has_header = FALSE

\* Header inference has run on the Name/Amount grid.
C6_Witness == table = NameAmountGrid /\ hdr_mode = "inferred" /\ tpc = "df"

\* Header names with a defect: two equal names, or a name that is blank,
\* 'none' or 'nan' in any case.
Defect(names) ==
    \/ \E i, j \in 1..Len(names) : i < j /\ names[i] = names[j]
    \/ \E i \in 1..Len(names) :
           Lower(names[i]) \in {<<>>, <<"n","o","n","e">>, <<"n","a","n">>}

\* The record of a repaired table, and the record that keeps the decision.
Repaired(r) ==
    /\ r.headers = GenericNames(r.col_count)
    /\ r.has_header = FALSE
    /\ r.note = "Table had duplicate or invalid column names, generic names were assigned"

KeepsDecision(r) == r.headers = df.columns /\ r.has_header = has_header

\* C12: header repair always wins: whenever the header names of a
\* normalized table have a defect, table_to_dict returns generic headers,
\* has_header = false and a note, whether the header decision was inferred
\* or forced; when they have none, the record keeps the headers and the
\* has_header that were decided.
C12_RepairAlwaysWins ==
    tpc = "rec" => IF Defect(df.columns) THEN Repaired(rec) ELSE KeepsDecision(rec)

\* C12 for a normalized table that has rows left; a table without rows
\* gets the empty-table record whatever its header names are.
C12_RepairWinsWithRows ==
    tpc = "rec" =>
        IF df.rows = <<>>
        THEN rec.headers = NoneList /\ rec.has_header = FALSE /\ rec.note = "Empty table"
        ELSE IF Defect(df.columns) THEN Repaired(rec) ELSE KeepsDecision(rec)

\* A table whose header was forced by the caller and whose header names
\* have a defect has been repaired.
C12_Witness ==
    /\ tpc = "rec"
    /\ hdr_mode = "forced"
    /\ has_header
    /\ Defect(df.columns)
    /\ df.rows # <<>>
    /\ rec.has_header = FALSE

\* C23: whenever the record of a normalized table has has_header = false
\* with generic names (the header decision was false, or the header repair
\* was applied), its headers are exactly Column_1, ..., Column_N in order
\* with N = col_count, also after cleanup dropped entirely empty columns.
C23_GenericNamesAreConsecutive ==
    (tpc = "rec" /\ rec.has_header = FALSE /\ rec.note # "Empty table") =>
        rec.headers = GenericNames(rec.col_count)

\* The first-row cells that contain a header keyword, each cell once.
MatchingCells(first_row) ==
    {c \in 1..Len(first_row) :
        /\ Truthy(first_row[c])
        /\ \E k \in 1..Len(real_header_keywords) :
               Contains(real_header_keywords[k], Lower(Str(first_row[c])))}

\* C24: for a grid that passes the trivial and key-value checks, header
\* inference returns true if and only if the grid has at least 3 columns
\* and either more than 50% of the columns are text in the first row over a
\* modal data type of number or date, or at least 2 first-row cells match
\* the header keyword list (each cell counted once).
C24_InferIffShiftOrTwoKeywordCells ==
    (hdr_mode = "inferred" /\ tpc # "grid" /\ exc # "IndexError" /\ ~EarlyNoHeader(table)) =>
        (has_header <=>
            /\ Len(table[1]) >= 3
            /\ \/ 2 * type_mismatches(table, typeOrder) > Len(table[1])
               \/ Cardinality(MatchingCells(table[1])) >= 2)

\* C28: header inference is a deterministic function of the grid - any
\* second evaluation on the same grid (in whatever process, hence under
\* whatever iteration order of the set of types) returns what the first one
\* returned, also when two cell types tie for the modal type of a column.
C28_InferIsFunctionOfGrid ==
    (hdr_mode = "inferred" /\ tpc # "grid" /\ exc # "IndexError") =>
        \A order \in TypeOrders : _detect_header(table, order) = has_header

(***************************************************************************)
(* TableClassifier: _find_totals_table and _find_line_items_table          *)
(***************************************************************************)
totals_keywords == <<
    <<"t","o","p","l","a","m">>,
    <<"t","u","t","a","r">>,
    <<"t","o","t","a","l">>,
    <<"k","d","v">>,
    <<"m","a","t","r","a","h">>,
    <<"v","e","r","g","i">>,
    <<"o_uml","d","e","n","e","c","e","k">>,
    <<"i","s","k","o","n","t","o">>,
    <<"m","a","l"," ","h","i","z","m","e","t">>,
    <<"a","r","a"," ","t","o","p","l","a","m">>,
    <<"g","e","n","e","l"," ","t","o","p","l","a","m">>,
    <<"s","u","b","t","o","t","a","l">>,
    <<"g","r","a","n","d"," ","t","o","t","a","l">> >>

line_item_keywords == <<
    <<"s","i_dotless","r","a">>,
    <<"m","a","l">>,
    <<"h","i","z","m","e","t">>,
    <<"m","i","k","t","a","r">>,
    <<"f","i","y","a","t">>,
    <<"t","u","t","a","r">>,
    <<"k","d","v">> >>

\* ' '.join(str(cell).lower() for cell in cells if cell)
JoinLower(cells) ==
    LET kept == SelectSeq(cells, Truthy)
    IN  JoinSpace([i \in 1..Len(kept) |-> Lower(Str(kept[i]))])

KeywordCount(keywords, text) ==
    Cardinality({k \in 1..Len(keywords) : Contains(keywords[k], text)})

\* all_cells of _find_totals_table: the headers, when there are any, then the
\* values of every row.
all_cells(t) == (IF t.headers = NoneList THEN <<>> ELSE t.headers) \o Flatten(t.rows)

\* keyword_count of _find_totals_table (lines 553-573)
totals_keyword_count(t) == KeywordCount(totals_keywords, JoinLower(all_cells(t)))

Abs(x) == IF x < 0 THEN -x ELSE x

\* The score _find_totals_table gives a 2-column table (lines 574-579).
totals_score(t) ==
    totals_keyword_count(t) * 10
        + (IF 3 <= t.row_count /\ t.row_count <= 15
           THEN (15 - Abs(t.row_count - 8)) * 2 ELSE 0)

\* A table enters the candidates of _find_totals_table (lines 551, 583).
totals_candidate(t) == t.col_count = 2 /\ totals_score(t) > 0

Min(a, b) == IF a < b THEN a ELSE b

\* The score _find_line_items_table gives a table (lines 680-707).
line_items_score(t) ==
    (IF t.has_header THEN 10 ELSE 0)
        + (IF t.headers = NoneList \/ t.headers = <<>> THEN 0
           ELSE 5 * KeywordCount(line_item_keywords, JoinLower(t.headers)))
        + (IF 3 <= t.row_count /\ t.row_count <= 100 THEN Min(t.row_count, 20) ELSE 0)
        + (IF 5 <= t.col_count /\ t.col_count <= 15 THEN t.col_count * 2 ELSE 0)

\* An unstable variant: x goes in front of the candidates of equal score.
InsertByScore_BeforeEqual(sorted, x) ==
    LET before == SelectSeq(sorted, LAMBDA c : c.score > x.score)
        after == SelectSeq(sorted, LAMBDA c : c.score <= x.score)
    IN  before \o <<x>> \o after

\* Where list.sort(key=score, reverse=True) puts x among the already sorted
\* candidates: behind every candidate whose score is not smaller (the sort
\* is stable, also when reversed).
InsertByScore(sorted, x) ==
    LET before == SelectSeq(sorted, LAMBDA c : c.score >= x.score)
        after == SelectSeq(sorted, LAMBDA c : c.score < x.score)
    IN  before \o <<x>> \o after

\* candidates.sort(key=lambda x: x[0], reverse=True)
RECURSIVE SortByScore(_)
SortByScore(cands) ==
    IF cands = <<>> THEN <<>>
    ELSE InsertByScore(SortByScore(SubSeq(cands, 1, Len(cands) - 1)), cands[Len(cands)])

\* _find_totals_table(tables): the position of the returned table, 0 for None.
_find_totals_table(ts) ==
    LET scored == [i \in 1..Len(ts) |->
                      [score |-> IF ts[i].col_count # 2 THEN 0 ELSE totals_score(ts[i]), idx |-> i]]
        candidates == SelectSeq(scored, LAMBDA c : ts[c.idx].col_count = 2 /\ c.score > 0)
    IN  IF ts = <<>> \/ candidates = <<>> THEN 0 ELSE SortByScore(candidates)[1].idx

\* _find_line_items_table(tables): the position of the returned table, 0 for None.
_find_line_items_table(ts) ==
    LET candidates == [i \in 1..Len(ts) |-> [score |-> line_items_score(ts[i]), idx |-> i]]
    IN  IF ts = <<>> THEN 0 ELSE SortByScore(candidates)[1].idx

\* Largest number of tables of a document.
MaxTables == 3

\* Row counts of the tables of the model: outside and inside the 3..15 band of the row bonus.
RowCounts == {1, 3}

S_KdvMatrahi == <<"K","D","V"," ","M","a","t","r","a","h","i_dotless">>
S_1000TL == <<"1",".","0","0","0",",","0","0"," ","T","L">>

\* A 2-column key-value table of n rows whose labels hold totals keywords.
TotalsTable(n) ==
    [col_count |-> 2, row_count |-> n, has_header |-> FALSE, headers |-> GenericNames(2),
     rows |-> [i \in 1..n |-> <<S_KdvMatrahi, S_1000TL>>]]

\* A 2-column table of n rows without any totals keyword.
PlainTable(n) ==
    [col_count |-> 2, row_count |-> n, has_header |-> FALSE, headers |-> GenericNames(2),
     rows |-> [i \in 1..n |-> <<S_Ali, S_120_50>>]]

\* A 5-column line-items table of n rows with a header row.
ItemsTable(n) ==
    [col_count |-> 5, row_count |-> n, has_header |-> TRUE,
     headers |-> << <<"S","i_dotless","r","a">>, <<"M","a","l"," ","H","i","z","m","e","t">>, <<"M","i","k","t","a","r">>, <<"F","i","y","a","t">>, <<"T","u","t","a","r">> >>,
     rows |-> [i \in 1..n |-> << <<"1">>, <<"K","a","l","e","m">>, <<"2">>, <<"3",".","0","0">>, <<"6",".","0","0">> >>]]

TablePool == {TotalsTable(n) : n \in RowCounts} \cup {PlainTable(n) : n \in RowCounts}
                 \cup {ItemsTable(n) : n \in RowCounts}

ClassifierInit ==
    /\ tables \in UNION {[1..n -> TablePool] : n \in 0..MaxTables}
    /\ totals_res = -1
    /\ items_res = -1
    /\ TableIdle
    /\ SegmenterIdle
    /\ CoercerIdle
    /\ ExtractorIdle
    /\ TypedIdle
    /\ ManagerIdle
    /\ DocumentIdle
    /\ AnalyzerIdle
    /\ EndpointIdle
    /\ ServiceIdle
    /\ InvoiceIdle

\* extract_data looks for the totals table (line 339).
FindTotals ==
    /\ tpc = "idle"
    /\ totals_res = -1
    /\ totals_res' = _find_totals_table(tables)
    /\ UNCHANGED <<tables, items_res, tvars, svars, kvars, xvars, pvars, mvars, dvars, avars, hvars, lvars, ivars>>

\* extract_data looks for the line-items table (line 373).
FindLineItems ==
    /\ tpc = "idle"
    /\ items_res = -1
    /\ items_res' = _find_line_items_table(tables)
    /\ UNCHANGED <<tables, totals_res, tvars, svars, kvars, xvars, pvars, mvars, dvars, avars, hvars, lvars, ivars>>

ClassifierNext == FindTotals \/ FindLineItems

SpecClassifier == ClassifierInit /\ [][ClassifierNext]_vars

(***************************************************************************)
(* Properties of table classification                                      *)
(***************************************************************************)
\* C7: _find_totals_table never returns a table whose col_count is not 2,
\* returns None when there is no 2-column table, and returns None when no
\* 2-column table's text holds a totals keyword.
C7_TotalsOnlyWithKeyword ==
    totals_res >= 0 =>
        /\ totals_res > 0 => tables[totals_res].col_count = 2
        /\ (\A i \in 1..Len(tables) : tables[i].col_count # 2) => totals_res = 0
        /\ (\A i \in 1..Len(tables) :
                tables[i].col_count = 2 => totals_keyword_count(tables[i]) = 0) => totals_res = 0

\* i is the first position of maximal score among the positions in among.
FirstOfMax(i, among, scores) ==
    /\ i \in among
    /\ \A j \in among : scores[j] <= scores[i]
    /\ \A j \in among : j < i => scores[j] < scores[i]

\* C8: both selections return the candidate of maximal score that comes
\* first in input order (None when there is no candidate).
C8_EarliestOfTiedWins ==
    /\ totals_res >= 0 =>
          LET scores == [i \in 1..Len(tables) |->
                            IF tables[i].col_count = 2 THEN totals_score(tables[i]) ELSE 0]
              among == {i \in 1..Len(tables) : tables[i].col_count = 2 /\ scores[i] > 0}
          IN  IF among = {} THEN totals_res = 0 ELSE FirstOfMax(totals_res, among, scores)
    /\ items_res >= 0 =>
          LET scores == [i \in 1..Len(tables) |-> line_items_score(tables[i])]
          IN  IF tables = <<>> THEN items_res = 0
              ELSE FirstOfMax(items_res, 1..Len(tables), scores)

\* Both selections have returned on an input where two different candidates
\* tie for the highest score, for totals and for line items.
C8_Witness ==
    /\ totals_res > 0
    /\ items_res > 0
    /\ \E j \in 1..Len(tables) :
          /\ j # totals_res
          /\ totals_candidate(tables[j])
          /\ totals_score(tables[j]) = totals_score(tables[totals_res])
    /\ \E j \in 1..Len(tables) :
          /\ j # items_res
          /\ line_items_score(tables[j]) = line_items_score(tables[items_res])

(***************************************************************************)
(* SpatialBlockSegmenter: PDFReader.extract_sender_recipient_blocks        *)
(***************************************************************************)
\* page.rect.width of the page
PageWidth == 600

\* Smallest vertical gap that splits (gap > 10) and smallest length of a kept text.
MinGap == 10
MinTextLen == 5

S_ettn == <<"e","t","t","n">>

\* Logo texts and table-header phrases dropped by the noise filter.
logo_keywords == <<
    <<"e","-","f","a","t","u","r","a">>,
    <<"e","-","a","r","s_cedilla","i","v">> >>

table_header_keywords == <<
    <<"s","i_dotless","r","a","\n","n","o">>,
    <<"m","a","l"," ","h","i","z","m","e","t">>,
    <<"m","a","l","z","e","m","e","/","h","i","z","m","e","t">>,
    <<"m","i","k","t","a","r">>,
    <<"b","i","r","i","m","\n","f","i","y","a","t">>,
    <<"k","d","v","\n","o","r","a","n","i_dotless">>,
    <<"t","o","p","l","a","m","\n","t","u","t","a","r">>,
    <<"i","s","k","o","n","t","o","\n","t","u","t","a","r","i_dotless">> >>

\* text_blocks (lines 420-432): the blocks with a text that is not blank,
\* their text stripped.
text_blocks(bs) ==
    [i \in 1..Len(SelectSeq(bs, LAMBDA b : Truthy(Strip(b.text)))) |->
        LET b == SelectSeq(bs, LAMBDA c : Truthy(Strip(c.text)))[i]
        IN  [text |-> Strip(b.text), x0 |-> b.x0, y0 |-> b.y0, y1 |-> b.y1]]

\* Where x goes among blocks already sorted by y0: sorted() is stable.
InsertByY0(sorted, x) ==
    SelectSeq(sorted, LAMBDA b : b.y0 <= x.y0) \o <<x>> \o SelectSeq(sorted, LAMBDA b : b.y0 > x.y0)

\* sorted(text_blocks, key=lambda b: b['y0'])
RECURSIVE SortByY0(_)
SortByY0(bs) ==
    IF bs = <<>> THEN <<>>
    ELSE InsertByY0(SortByY0(SubSeq(bs, 1, Len(bs) - 1)), bs[Len(bs)])

\* The first position of seq that satisfies the test, as Python counts it
\* (from 0); -1 stands for None.
FirstIndex(flags) ==
    IF \E i \in 1..Len(flags) : flags[i]
    THEN (CHOOSE i \in 1..Len(flags) : flags[i] /\ \A j \in 1..(i - 1) : ~flags[j]) - 1
    ELSE -1

\* ettn_idx (lines 438-442)
ettn_idx(sorted_blocks) ==
    FirstIndex([i \in 1..Len(sorted_blocks) |-> Contains(S_ettn, Lower(sorted_blocks[i].text))])

\* before_ettn (line 444): `if ettn_idx` is false for None and for 0.
before_ettn(sorted_blocks) ==
    IF ettn_idx(sorted_blocks) > 0
    THEN SubSeq(sorted_blocks, 1, ettn_idx(sorted_blocks))
    ELSE sorted_blocks

\* left_blocks (lines 450-454); x0 < leftmost_x + page_width * 0.35
left_blocks(bs) ==
    LET leftmost_x == CHOOSE x \in {bs[i].x0 : i \in 1..Len(bs)} :
                          \A i \in 1..Len(bs) : x <= bs[i].x0
    IN  SelectSeq(bs, LAMBDA b : 100 * b.x0 < 100 * leftmost_x + 35 * PageWidth)

\* A block the noise filter drops (lines 461-484).
Noise(b) ==
    \/ \E k \in 1..Len(logo_keywords) : Contains(logo_keywords[k], Lower(b.text))
    \/ \E k \in 1..Len(table_header_keywords) :
           Contains(table_header_keywords[k], Lower(b.text))
    \/ Len(Strip(b.text)) < MinTextLen

\* clean_blocks: the fragments that survive the three filters.
clean_blocks(bs) ==
    LET before == before_ettn(SortByY0(text_blocks(bs)))
    IN  IF before = <<>> THEN <<>>
        ELSE SelectSeq(left_blocks(before), LAMBDA b : ~Noise(b))

\* sayin_pattern.search(text.lower()) for the pattern sa\s*y[i i_dotless I_dot]n
MatchesSayin(text) ==
    LET s == Lower(text)
    IN  \E i \in 1..Len(s) : \E k \in 0..Len(s) :
            /\ i + 4 + k <= Len(s)
            /\ s[i] = "s"
            /\ s[i + 1] = "a"
            /\ \A j \in (i + 2)..(i + 1 + k) : s[j] \in Whitespace
            /\ s[i + 2 + k] = "y"
            /\ s[i + 3 + k] \in {"i", "i_dotless", "I_dot"}
            /\ s[i + 4 + k] = "n"

\* sayin_idx (lines 496-502), counted from 0; -1 stands for None.
sayin_idx(cb) == FirstIndex([i \in 1..Len(cb) |-> MatchesSayin(cb[i].text)])

\* The position of the largest vertical gap above MinGap, the first of the
\* largest ones (max returns the first maximum); 0 when no gap is large enough.
best_gap(cb) ==
    LET gap(i) == cb[i + 1].y0 - cb[i].y1
        gaps == {i \in 1..(Len(cb) - 1) : gap(i) > MinGap}
    IN  IF gaps = {} THEN 0
        ELSE CHOOSE i \in gaps :
                 /\ \A j \in gaps : gap(j) <= gap(i)
                 /\ \A j \in gaps : j < i => gap(j) < gap(i)

\* The split of lines 504-533.
SplitBlocks(cb) ==
    IF sayin_idx(cb) > 0
    THEN [sender_blocks |-> SubSeq(cb, 1, sayin_idx(cb)),
          recipient_blocks |-> SubSeq(cb, sayin_idx(cb) + 1, Len(cb))]
    ELSE IF sayin_idx(cb) = 0
    THEN [sender_blocks |-> <<>>, recipient_blocks |-> cb]
    ELSE IF Len(cb) >= 2
    THEN IF best_gap(cb) > 0
         THEN [sender_blocks |-> SubSeq(cb, 1, best_gap(cb)),
               recipient_blocks |-> SubSeq(cb, best_gap(cb) + 1, Len(cb))]
         ELSE [sender_blocks |-> SubSeq(cb, 1, Len(cb) \div 2),
               recipient_blocks |-> SubSeq(cb, (Len(cb) \div 2) + 1, Len(cb))]
    ELSE [sender_blocks |-> cb, recipient_blocks |-> <<>>]

\* A first step that leaves an empty sender side as it is.
RepairSender_Skipped(g) == g

\* "Ensure we have something", first step (lines 536-538).
RepairSender(g) ==
    IF g.sender_blocks = <<>> /\ g.recipient_blocks # <<>>
    THEN [sender_blocks |-> <<g.recipient_blocks[1]>>,
          recipient_blocks |-> Tail(g.recipient_blocks)]
    ELSE g

\* A second step that leaves an empty recipient side as it is.
RepairRecipient_Skipped(g) == g

\* A second step that copies the last sender fragment without taking it
\* from the sender side.
RepairRecipient_KeepsSender(g) ==
    IF g.recipient_blocks = <<>> /\ g.sender_blocks # <<>>
    THEN [sender_blocks |-> g.sender_blocks,
          recipient_blocks |-> <<g.sender_blocks[Len(g.sender_blocks)]>>]
    ELSE g

\* "Ensure we have something", second step (lines 540-542).
RepairRecipient(g) ==
    IF g.recipient_blocks = <<>> /\ g.sender_blocks # <<>>
    THEN [sender_blocks |-> SubSeq(g.sender_blocks, 1, Len(g.sender_blocks) - 1),
          recipient_blocks |-> <<g.sender_blocks[Len(g.sender_blocks)]>>]
    ELSE g

\* extract_sender_recipient_blocks on the text blocks of the page.
extract_sender_recipient_blocks(bs) ==
    IF clean_blocks(bs) = <<>> THEN NoSegments
    ELSE RepairRecipient(RepairSender(SplitBlocks(clean_blocks(bs))))

\* Largest number of text blocks of a page.
MaxBlocks == 3

\* The text blocks a page is made of: entity lines at the left, the greeting,
\* the ETTN line, a logo text, a short text, a blank text, and a block of the
\* right column; get_text ends a block's text with a line break.
BlockPool == {
    [text |-> <<"A","B","C"," ","L","T","D"," ","S_cedilla","T","I_dot","\n">>, x0 |-> 10, height |-> 12],
    [text |-> <<"S","A","Y","I","N","\n">>, x0 |-> 10, height |-> 5],
    [text |-> <<"J","a","n","e"," ","D","o","e","\n">>, x0 |-> 10, height |-> 5],
    [text |-> <<"E","T","T","N",":"," ","1","2">>, x0 |-> 10, height |-> 5],
    [text |-> <<"e","-","F","a","t","u","r","a","\n">>, x0 |-> 10, height |-> 5],
    [text |-> <<"a","b","c","\n">>, x0 |-> 10, height |-> 5],
    [text |-> <<" ","\n">>, x0 |-> 10, height |-> 5],
    [text |-> <<"F","a","t","u","r","a"," ","N","o",":"," ","1","\n">>, x0 |-> 300, height |-> 5] }

\* The k-th line of the page starts at y0 = 20 * (k - 1).
BlockAt(k, b) == [text |-> b.text, x0 |-> b.x0, y0 |-> 20 * (k - 1), y1 |-> 20 * (k - 1) + b.height]

\* The pages: on every line one block of the pool or none, the blocks listed
\* top-down or bottom-up.
Pages ==
    LET Lines == [1..MaxBlocks -> BlockPool \cup {[text |-> <<>>, x0 |-> 0, height |-> 0]}]
        TopDown(f) == SelectSeq([k \in 1..MaxBlocks |-> BlockAt(k, f[k])],
                                LAMBDA b : b.text # <<>>)
        Reverse(q) == [i \in 1..Len(q) |-> q[Len(q) + 1 - i]]
    IN  {TopDown(f) : f \in Lines} \cup {Reverse(TopDown(f)) : f \in Lines}

SegmenterInit ==
    /\ blocks \in Pages
    /\ spc = "page"
    /\ segments = NoSegments
    /\ TableIdle
    /\ ClassifierIdle
    /\ CoercerIdle
    /\ ExtractorIdle
    /\ TypedIdle
    /\ ManagerIdle
    /\ DocumentIdle
    /\ AnalyzerIdle
    /\ EndpointIdle
    /\ ServiceIdle
    /\ InvoiceIdle

\* One call of extract_sender_recipient_blocks (lines 393-547).
Segment ==
    /\ spc = "page"
    /\ segments' = extract_sender_recipient_blocks(blocks)
    /\ spc' = "done"
    /\ UNCHANGED <<blocks, tvars, cvars, kvars, xvars, pvars, mvars, dvars, avars, hvars, lvars, ivars>>

SegmenterNext == Segment

SpecSegmenter == SegmenterInit /\ [][SegmenterNext]_vars

(***************************************************************************)
(* Properties of the segmenter                                             *)
(***************************************************************************)
\* The position (from 1) of the first surviving fragment that matches the
\* greeting anchor; 0 when none does.
GreetingAt(cb) ==
    IF \E i \in 1..Len(cb) : MatchesSayin(cb[i].text)
    THEN CHOOSE i \in 1..Len(cb) :
             MatchesSayin(cb[i].text) /\ \A j \in 1..(i - 1) : ~MatchesSayin(cb[j].text)
    ELSE 0

\* C9: whenever a surviving fragment matches the greeting anchor, the first
\* such fragment and every surviving fragment after it are in
\* recipient_blocks and every surviving fragment before it is in
\* sender_blocks, wherever the greeting sits, including first.
C9_GreetingStartsRecipient ==
    (spc = "done" /\ GreetingAt(clean_blocks(blocks)) > 0) =>
        LET cb == clean_blocks(blocks)
            g == GreetingAt(cb)
        IN  /\ segments.sender_blocks = SubSeq(cb, 1, g - 1)
            /\ segments.recipient_blocks = SubSeq(cb, g, Len(cb))

\* C10: whenever at least 2 fragments survive the filters, sender_blocks
\* and recipient_blocks of the result are both non-empty.
C10_BothSidesNonEmpty ==
    (spc = "done" /\ Len(clean_blocks(blocks)) >= 2) =>
        segments.sender_blocks # <<>> /\ segments.recipient_blocks # <<>>

\* The segmenter has returned for a page with at least two surviving
\* fragments the first of which is the greeting (the repair acted).
C10_Witness ==
    /\ spc = "done"
    /\ Len(clean_blocks(blocks)) >= 2
    /\ GreetingAt(clean_blocks(blocks)) = 1

\* C11: sender_blocks followed by recipient_blocks is exactly the
\* filtered, y0-sorted fragment sequence: no surviving fragment is lost,
\* duplicated or reordered, on every path.
C11_OrderPreservingPartition ==
    spc = "done" =>
        LET joined == segments.sender_blocks \o segments.recipient_blocks
        IN  /\ joined = clean_blocks(blocks)
            /\ \A i, j \in 1..Len(joined) : i < j => joined[i].y0 <= joined[j].y0
            /\ \A i, j \in 1..Len(joined) : i # j => joined[i] # joined[j]
            /\ Range(joined) \subseteq Range(text_blocks(blocks))

\* The segmenter has returned for a page listed bottom-up of which three
\* fragments survive, none of them the greeting.
C11_Witness ==
    /\ spc = "done"
    /\ Len(clean_blocks(blocks)) = 3
    /\ GreetingAt(clean_blocks(blocks)) = 0
    /\ blocks[1].y0 > blocks[2].y0
    /\ Len(segments.sender_blocks) + Len(segments.recipient_blocks) = 3

\* C22: if, in y0 order, some fragment's text contains 'ettn' (whatever the
\* case), neither sender_blocks nor recipient_blocks holds that fragment or
\* a fragment after it, wherever the anchor fragment sits (first included,
\* which gives two empty blocks); with no such fragment the whole sequence
\* goes through the later filters.
C22_TruncatesAtFirstAnchor ==
    spc = "done" =>
        LET sorted_blocks == SortByY0(text_blocks(blocks))
            anchor == ettn_idx(sorted_blocks)
            returned == Range(segments.sender_blocks) \cup Range(segments.recipient_blocks)
        IN  IF anchor >= 0
            THEN /\ \A i \in (anchor + 1)..Len(sorted_blocks) : sorted_blocks[i] \notin returned
                 /\ anchor = 0 => segments = NoSegments
            ELSE IF sorted_blocks = <<>> THEN returned = {}
            ELSE returned = Range(SelectSeq(left_blocks(sorted_blocks), LAMBDA b : ~Noise(b)))

\* C29: when exactly one fragment survives the filters, the result is
\* sender_blocks = [] and recipient_blocks = [that fragment], whether or
\* not the fragment matches the greeting.
C29_SingleFragmentIsRecipient ==
    (spc = "done" /\ Len(clean_blocks(blocks)) = 1) =>
        /\ segments.sender_blocks = <<>>
        /\ segments.recipient_blocks = <<clean_blocks(blocks)[1]>>

\* The segmenter has returned for a page whose only surviving fragment is
\* the greeting: the split left the sender side empty and both repair steps
\* acted one after the other.
C29_Witness ==
    /\ spc = "done"
    /\ Len(clean_blocks(blocks)) = 1
    /\ sayin_idx(clean_blocks(blocks)) = 0
    /\ SplitBlocks(clean_blocks(blocks)).sender_blocks = <<>>
    /\ RepairSender(SplitBlocks(clean_blocks(blocks))).recipient_blocks = <<>>
    /\ segments.recipient_blocks = clean_blocks(blocks)

(***************************************************************************)
(* TypeCoercer: CustomExtractor._convert_type, type 'number'               *)
(***************************************************************************)
\* The alternatives of the currency and unit pattern (line 422).
currency_tokens == <<
    <<"T","L">>, <<"lira_sign">>, <<"E","U","R">>, <<"U","S","D">>, <<"$">>,
    <<"euro_sign">>, <<"A","d","e","t">>, <<"a","d","e","t">>, <<"A","D","E","T">> >>

\* s.startswith(p)
StartsWith(s, p) == Len(p) <= Len(s) /\ SubSeq(s, 1, Len(p)) = p

\* re.sub(r'\s*(TL|...|ADET)\s*', '', s): at each position from the left,
\* a run of whitespace, one token and the whitespace after it are removed.
RECURSIVE RemoveCurrency(_)
RemoveCurrency(s) ==
    IF s = <<>> THEN <<>>
    ELSE IF \E k \in 1..Len(currency_tokens) : StartsWith(LStrip(s), currency_tokens[k])
    THEN LET tok == currency_tokens[CHOOSE k \in 1..Len(currency_tokens) :
                                        StartsWith(LStrip(s), currency_tokens[k])]
         IN  RemoveCurrency(LStrip(SubSeq(LStrip(s), Len(tok) + 1, Len(LStrip(s)))))
    ELSE <<Head(s)>> \o RemoveCurrency(Tail(s))

\* re.sub(r'[^\d,.-]', '', s)
KeepNumeric(s) == SelectSeq(s, LAMBDA c : c \in Digits \cup {",", ".", "-"})

\* s.rfind(c): the last position of c, counted from 0; -1 when absent.
RFind(s, c) ==
    IF \E i \in 1..Len(s) : s[i] = c
    THEN (CHOOSE i \in 1..Len(s) : s[i] = c /\ \A j \in (i + 1)..Len(s) : s[j] # c) - 1
    ELSE -1

\* A test that takes the comma for the decimal separator whatever comes last.
CommaIsLast_Always(s) == TRUE

\* last_comma > last_dot (lines 434-436)
CommaIsLast(s) == RFind(s, ",") > RFind(s, ".")

\* The separators rewritten to Python's notation (lines 431-445).
NormalizeSeparators(s) ==
    IF (\E i \in 1..Len(s) : s[i] = ",") /\ (\E i \in 1..Len(s) : s[i] = ".")
    THEN IF CommaIsLast(s)
         THEN ReplaceChar(RemoveAll(s, "."), ",", ".")
         ELSE RemoveAll(s, ",")
    ELSE IF \E i \in 1..Len(s) : s[i] = ","
    THEN ReplaceChar(s, ",", ".")
    ELSE s

\* The digit a character stands for.
DigitValue(c) ==
    CASE c = "0" -> 0 [] c = "1" -> 1 [] c = "2" -> 2 [] c = "3" -> 3 [] c = "4" -> 4
      [] c = "5" -> 5 [] c = "6" -> 6 [] c = "7" -> 7 [] c = "8" -> 8 [] c = "9" -> 9

\* int(ds) for a string of digits, 0 for the empty string.
RECURSIVE DigitsToInt(_)
DigitsToInt(ds) ==
    IF ds = <<>> THEN 0
    ELSE 10 * DigitsToInt(SubSeq(ds, 1, Len(ds) - 1)) + DigitValue(ds[Len(ds)])

\* A float as mant / 10^scale with no trailing zero in the fraction, so
\* that equal floats are equal records.
RECURSIVE Float(_, _)
Float(mant, scale) ==
    IF scale > 0 /\ mant % 10 = 0 THEN Float(mant \div 10, scale - 1)
    ELSE [kind |-> "float", mant |-> mant, scale |-> scale]

\* float(s) accepts s (no exponent, no blanks left in s here): an optional
\* '-', then digits with at most one '.', and at least one digit.
FloatAccepts(s) ==
    LET body == IF s # <<>> /\ Head(s) = "-" THEN Tail(s) ELSE s
        point == RFind(body, ".") + 1
        whole == IF point = 0 THEN body ELSE SubSeq(body, 1, point - 1)
        frac == IF point = 0 THEN <<>> ELSE SubSeq(body, point + 1, Len(body))
    IN  /\ \A i \in 1..Len(whole) : whole[i] \in Digits
        /\ \A i \in 1..Len(frac) : frac[i] \in Digits
        /\ Len(whole) + Len(frac) > 0

\* float(s) for an accepted s.
FloatOf(s) ==
    LET neg == Head(s) = "-"
        body == IF neg THEN Tail(s) ELSE s
        point == RFind(body, ".") + 1
        frac == IF point = 0 THEN 0 ELSE Len(body) - point
        mant == DigitsToInt(RemoveAll(body, "."))
    IN  Float(IF neg THEN 0 - mant ELSE mant, frac)

\* _convert_type(v, 'number') for a string v (lines 409-450); the
\* ValueError of float() is caught and gives None.
convert_number(v) ==
    IF ~Truthy(v) \/ Strip(v) = <<>> THEN NoneValue
    ELSE LET cleaned == KeepNumeric(RemoveCurrency(Strip(v)))
         IN  IF cleaned = <<>> THEN NoneValue
             ELSE IF FloatAccepts(NormalizeSeparators(cleaned))
             THEN FloatOf(NormalizeSeparators(cleaned))
             ELSE NoneValue

\* Longest extracted string of the enumeration.
MaxChars == 3

\* Characters of the enumerated strings.
NumberChars == {"0", "1", ",", ".", "-", " ", "T", "L"}

S_Turkish == <<"1",".","2","3","4",",","5","6">>
S_English == <<"1",",","2","3","4",".","5","6">>

\* Extracted strings: every string of up to MaxChars characters, and longer
\* amounts in Turkish and English notation.
NumberStrings ==
    UNION {[1..n -> NumberChars] : n \in 0..MaxChars}
        \cup {S_Turkish, S_English, <<"1",".","2","3","4",",","5","6"," ","T","L">>, <<"1",".","2",",","3",".","4">>, <<"0",",","1",",","2",".","5">>, <<"-","1",".","0","0","0",",","5","0">>}

CoercerInit ==
    /\ value \in NumberStrings
    /\ kpc = "value"
    /\ converted = NoneValue
    /\ TableIdle
    /\ ClassifierIdle
    /\ SegmenterIdle
    /\ ExtractorIdle
    /\ TypedIdle
    /\ ManagerIdle
    /\ DocumentIdle
    /\ AnalyzerIdle
    /\ EndpointIdle
    /\ ServiceIdle
    /\ InvoiceIdle

\* One call _convert_type(value, 'number').
ConvertNumber ==
    /\ kpc = "value"
    /\ converted' = convert_number(value)
    /\ kpc' = "done"
    /\ UNCHANGED <<value, tvars, cvars, svars, xvars, pvars, mvars, dvars, avars, hvars, lvars, ivars>>

CoercerNext == ConvertNumber

SpecCoercer == CoercerInit /\ [][CoercerNext]_vars

(***************************************************************************)
(* Properties of number coercion                                           *)
(***************************************************************************)
\* The number a cleaned string denotes when dec is its decimal separator
\* and the other separator has been removed: an optional leading '-', digits
\* and at most one dec, at least one digit; NoneValue for any other string.
Denotes(s, dec) ==
    LET Count(c) == Cardinality({i \in 1..Len(s) : s[i] = c})
        digits == SelectSeq(s, LAMBDA c : c \in Digits)
        after == IF Count(dec) = 1
                 THEN Cardinality({i \in 1..Len(s) : s[i] \in Digits /\
                                      \E j \in 1..(i - 1) : s[j] = dec})
                 ELSE 0
        wellformed == /\ Count(dec) <= 1
                      /\ digits # <<>>
                      /\ \A i \in 2..Len(s) : s[i] # "-"
        mant == DigitsToInt(digits)
    IN  IF ~wellformed THEN NoneValue
        ELSE Float(IF s[1] = "-" THEN 0 - mant ELSE mant, after)

\* The value the separator rule gives a string after the tokens and the
\* characters outside [0-9,.-] have been stripped.
BySeparatorRule(v) ==
    LET c == KeepNumeric(RemoveCurrency(Strip(v)))
        commas == {i \in 1..Len(c) : c[i] = ","}
        dots == {i \in 1..Len(c) : c[i] = "."}
        dec == IF commas # {} /\ (dots = {} \/ \A d \in dots : \E k \in commas : k > d)
               THEN "," ELSE "."
        other == IF dec = "," THEN "." ELSE ","
    IN  IF c = <<>> THEN NoneValue
        ELSE Denotes(SelectSeq(c, LAMBDA x : x # other), dec)

\* C5: number coercion follows the separator rule (the separator occurring
\* last is the decimal one and the other is removed; a lone ',' is decimal),
\* gives 1234.56 for '1.234,56' and for '1,234.56', null for '', and null,
\* never an exception, for a string that still cannot be parsed.
C5_NumberCoercion ==
    kpc = "done" =>
        /\ converted = BySeparatorRule(value)
        /\ converted.kind \in {"None", "float"}
        /\ value \in {S_Turkish, S_English} =>
               converted = [kind |-> "float", mant |-> 123456, scale |-> 2]
        /\ value = <<>> => converted = NoneValue

\* '1.234,56' has been coerced, and to 1234.56.
C5_Witness ==
    /\ kpc = "done"
    /\ value = S_Turkish
    /\ converted = [kind |-> "float", mant |-> 123456, scale |-> 2]

(***************************************************************************)
(* CustomExtractor.extract_with_schema: the loop over the schema's fields  *)
(***************************************************************************)
\* The text of the document: one line.
S_FullText == <<"N","o",":"," ","1","2",",","5">>

\* re.search(pattern, full_text, re.IGNORECASE | re.DOTALL) for the patterns
\* of the enumeration: "error" when the pattern does not compile (re.error),
\* "none" when it matches nowhere, else the match with match.group(0) and
\* match.groups(); a group that took no part in the match is None.
re_search(pattern) ==
    CASE pattern = "("          -> [outcome |-> "error", group0 |-> None, groups |-> <<>>]
      [] pattern = "xyz"        -> [outcome |-> "none", group0 |-> None, groups |-> <<>>]
      [] pattern = "No"         -> [outcome |-> "match", group0 |-> <<"N","o">>, groups |-> <<>>]
      [] pattern = "No: (\\S+)" -> [outcome |-> "match", group0 |-> S_FullText,
                                    groups |-> <<<<"1","2",",","5">>>>]
      [] pattern = "(x)?No"     -> [outcome |-> "match", group0 |-> <<"N","o">>, groups |-> <<None>>]

Patterns == {"(", "xyz", "No", "No: (\\S+)", "(x)?No"}

\* What the extraction of one field ends in: a value, or an exception that
\* leaves the method.
Returned(v) == [exc |-> "none", val |-> v]
Raised(e) == [exc |-> e, val |-> NoneValue]

\* _extract_with_regex (lines 180-197) for a field of type 'number': re.error
\* moves on to the next pattern; None.strip() is an AttributeError, which
\* `except re.error` does not catch.
RECURSIVE _extract_with_regex(_)
_extract_with_regex(patterns) ==
    IF patterns = <<>> THEN Returned(NoneValue)
    ELSE LET match == re_search(Head(patterns))
         IN  IF match.outcome = "error" \/ match.outcome = "none"
             THEN _extract_with_regex(Tail(patterns))
             ELSE IF match.groups # <<>>
             THEN IF match.groups[1] = None
                  THEN Raised("AttributeError")
                  ELSE Returned(convert_number(Strip(match.groups[1])))
             ELSE Returned(convert_number(Strip(match.group0)))

\* SequenceMatcher(None, keyword.lower(), line.lower()).ratio() in
\* thousandths, and what the keyword pattern captures on the line, for the
\* keywords of the enumeration and the one line of the text.
similarity(keyword) ==
    CASE keyword = "Tarih"  -> 0
      [] keyword = "No"     -> 400
      [] keyword = "No: 12" -> 857

captured(keyword) ==
    CASE keyword = "Tarih"  -> S_FullText
      [] keyword = "No"     -> <<"1","2",",","5">>
      [] keyword = "No: 12" -> <<",","5">>

Keywords == {"Tarih", "No", "No: 12"}

\* similarity > 0.6 (line 211)
FuzzyThreshold == 600

\* _extract_with_fuzzy (lines 199-223) on the one line of the text: the
\* state of the scan is best_match and best_score.
RECURSIVE FuzzyScan(_, _, _)
FuzzyScan(keywords, best_match, best_score) ==
    IF keywords = <<>> THEN best_match
    ELSE IF similarity(Head(keywords)) > best_score /\ similarity(Head(keywords)) > FuzzyThreshold
    THEN FuzzyScan(Tail(keywords), Strip(captured(Head(keywords))), similarity(Head(keywords)))
    ELSE FuzzyScan(Tail(keywords), best_match, best_score)

_extract_with_fuzzy(keywords) ==
    IF Truthy(FuzzyScan(keywords, None, 0))
    THEN Returned(convert_number(FuzzyScan(keywords, None, 0)))
    ELSE Returned(NoneValue)

\* What llm_service.extract_field does: it raises, or returns a string.
LlmAnswers == {"raises", "empty", "text"}

\* _extract_field_llm (lines 339-349): llm_service.extract_field returns
\* None when the model is not loaded (llm_service.py:234-235); an exception
\* of the model call is caught, an empty answer gives None.
_extract_field_llm(answer, available) ==
    IF ~available THEN Returned(NoneValue)
    ELSE IF answer = "raises" THEN Returned(NoneValue)
    ELSE IF answer = "empty" THEN Returned(NoneValue)
    ELSE Returned(convert_number(<<"1","2",",","5">>))

\* Largest number of fields of a schema.
MaxFields == 2

\* The fields of a schema: regex fields with up to two patterns, fuzzy
\* fields with up to one keyword, llm fields; all of type 'number'.
Fields ==
    {[method |-> "regex", patterns |-> ps, keywords |-> <<>>, llm |-> "empty"] :
        ps \in {<<>>} \cup {<<a>> : a \in Patterns} \cup {<<a, b>> : a \in Patterns, b \in Patterns}}
    \cup {[method |-> "fuzzy", patterns |-> <<>>, keywords |-> ks, llm |-> "empty"] :
        ks \in {<<>>} \cup {<<k>> : k \in Keywords}}
    \cup {[method |-> "llm", patterns |-> <<>>, keywords |-> <<>>, llm |-> a] : a \in LlmAnswers}

Schemas == UNION {[1..n -> Fields] : n \in 0..MaxFields}

ExtractorInit ==
    /\ schema \in Schemas
    /\ fidx = 0
    /\ data = <<>>
    /\ xpc = "closed"
    /\ xexc = "none"
    /\ pdf_open = FALSE
    /\ llm_loaded \in BOOLEAN
    /\ TableIdle
    /\ ClassifierIdle
    /\ SegmenterIdle
    /\ CoercerIdle
    /\ TypedIdle
    /\ ManagerIdle
    /\ DocumentIdle
    /\ AnalyzerIdle
    /\ EndpointIdle
    /\ ServiceIdle
    /\ InvoiceIdle

\* extract_with_schema up to the loop (lines 58-106): the PDF is opened and
\* the result starts with an empty data map.
Open ==
    /\ xpc = "closed"
    /\ pdf_open' = TRUE
    /\ data' = <<>>
    /\ fidx' = 1
    /\ xpc' = "fields"
    /\ UNCHANGED <<schema, llm_loaded, xexc, tvars, cvars, svars, kvars, pvars, mvars, dvars, avars, hvars, lvars, ivars>>

\* One round of the loop (lines 109-121) ending in r: the value is stored,
\* or the exception leaves extract_with_schema through `finally`, which
\* closes the PDF.
StoreOrRaise(r) ==
    IF r.exc = "none"
    THEN /\ data' = Append(data, r.val)
         /\ fidx' = fidx + 1
         /\ UNCHANGED <<xpc, xexc, pdf_open>>
    ELSE /\ xpc' = "raised"
         /\ xexc' = r.exc
         /\ pdf_open' = FALSE
         /\ UNCHANGED <<data, fidx>>

ExtractRegexField ==
    /\ xpc = "fields"
    /\ fidx <= Len(schema)
    /\ schema[fidx].method = "regex"
    /\ StoreOrRaise(_extract_with_regex(schema[fidx].patterns))
    /\ UNCHANGED <<schema, llm_loaded, tvars, cvars, svars, kvars, pvars, mvars, dvars, avars, hvars, lvars, ivars>>

ExtractFuzzyField ==
    /\ xpc = "fields"
    /\ fidx <= Len(schema)
    /\ schema[fidx].method = "fuzzy"
    /\ StoreOrRaise(_extract_with_fuzzy(schema[fidx].keywords))
    /\ UNCHANGED <<schema, llm_loaded, tvars, cvars, svars, kvars, pvars, mvars, dvars, avars, hvars, lvars, ivars>>

ExtractLlmField ==
    /\ xpc = "fields"
    /\ fidx <= Len(schema)
    /\ schema[fidx].method = "llm"
    /\ StoreOrRaise(_extract_field_llm(schema[fidx].llm, llm_loaded))
    /\ UNCHANGED <<schema, llm_loaded, tvars, cvars, svars, kvars, pvars, mvars, dvars, avars, hvars, lvars, ivars>>

\* The loop is over: the result is returned and the PDF closed (lines 126-130).
Return ==
    /\ xpc = "fields"
    /\ fidx > Len(schema)
    /\ xpc' = "returned"
    /\ pdf_open' = FALSE
    /\ UNCHANGED <<schema, llm_loaded, fidx, data, xexc, tvars, cvars, svars, kvars, pvars, mvars, dvars, avars, hvars, lvars, ivars>>

ExtractorNext ==
    \/ Open
    \/ ExtractRegexField
    \/ ExtractFuzzyField
    \/ ExtractLlmField
    \/ Return

SpecExtractor == ExtractorInit /\ [][ExtractorNext]_vars

(***************************************************************************)
(* Properties of schema-driven extraction                                  *)
(***************************************************************************)
\* C1: extract_with_schema never raises because of a single field: the
\* call ends by returning, the data map of the result has an entry for
\* every field of the schema, and the fields after a field that cannot be
\* resolved are still processed.
C1_NoFieldAborts ==
    /\ xpc # "raised"
    /\ xpc = "returned" => Len(data) = Len(schema)

(***************************************************************************)
(* TypeCoercer: CustomExtractor._convert_type for every field type, on     *)
(* strings and on values that are already typed                            *)
(***************************************************************************)
\* Python values: None (NoneValue), floats (Float), and
PyStr(s) == [kind |-> "str", text |-> s]
PyBool(b) == [kind |-> "bool", val |-> b]
PyList(items) == [kind |-> "list", items |-> items]
PyDict(keys, items) == [kind |-> "dict", keys |-> keys, items |-> items]

\* `not v`
Falsy(v) ==
    CASE v.kind = "None"  -> TRUE
      [] v.kind = "str"   -> v.text = <<>>
      [] v.kind = "float" -> v.mant = 0
      [] v.kind = "bool"  -> ~v.val
      [] v.kind = "list"  -> v.items = <<>>
      [] v.kind = "dict"  -> v.keys = <<>>

\* str(n) for an integer n >= 0
RECURSIVE IntDigits(_)
IntDigits(n) ==
    IF n < 10 THEN <<(<<"0">> \o DigitChar)[n + 1]>>
    ELSE IntDigits(n \div 10) \o <<(<<"0">> \o DigitChar)[(n % 10) + 1]>>

RECURSIVE Pow10(_)
Pow10(k) == IF k = 0 THEN 1 ELSE 10 * Pow10(k - 1)

\* str(f) for a float of moderate size (no exponent notation): '12.5', '0.0'
FloatToStr(f) ==
    LET a == IF f.mant < 0 THEN 0 - f.mant ELSE f.mant
        whole == IntDigits(a \div Pow10(f.scale))
        fr == IntDigits(a % Pow10(f.scale))
        frac == IF f.scale = 0 THEN <<"0">>
                ELSE [i \in 1..(f.scale - Len(fr)) |-> "0"] \o fr
    IN  (IF f.mant < 0 THEN <<"-">> ELSE <<>>) \o whole \o <<".">> \o frac

\* str(v)
PyToStr(v) ==
    CASE v.kind = "None"  -> <<"N","o","n","e">>
      [] v.kind = "str"   -> v.text
      [] v.kind = "float" -> FloatToStr(v)
      [] v.kind = "bool"  -> IF v.val THEN <<"T","r","u","e">> ELSE <<"F","a","l","s","e">>

\* The strings that count as true (line 454).
true_words == {<<"t","r","u","e">>, <<"y","e","s">>, <<"1">>, <<"e","v","e","t">>, <<"v","a","r">>}

\* str(value).lower().strip() in [...] (lines 453-454)
convert_boolean(s) == Strip(Lower(s)) \in true_words

S_Fence == <<"backtick","backtick","backtick">>

\* The first position at which sub occurs in s from position from on; 0 when
\* it does not occur.
FindFrom(sub, s, from) ==
    LET hits == {i \in from..(Len(s) - Len(sub) + 1) : SubSeq(s, i, i + Len(sub) - 1) = sub}
    IN  IF hits = {} THEN 0 ELSE CHOOSE i \in hits : \A j \in hits : i <= j

\* _clean_markdown_json (lines 573-593) on a string: the text between the
\* first fence (with its optional 'json') and the next fence, stripped; the
\* stripped text when there is no such pair.
_clean_markdown_json(text) ==
    IF text = <<>> THEN text
    ELSE LET stripped == Strip(text)
             open == FindFrom(S_Fence, stripped, 1)
             body == IF open > 0 /\ StartsWith(SubSeq(stripped, open + 3, Len(stripped)), <<"j","s","o","n">>)
                     THEN open + 7 ELSE open + 3
             close == IF open > 0 THEN FindFrom(S_Fence, stripped, body) ELSE 0
         IN  IF close > 0 THEN Strip(SubSeq(stripped, body, close - 1)) ELSE stripped

\* The strings handed to _convert_type.
S_JEmptyList == <<"[","]">>
S_JEmptyDict == <<"{","}">>
S_JNull == <<"{","\"","a","\"",":"," ","n","u","l","l","}">>
S_JText == <<"{","\"","a","\"",":"," ","\"","1","2",",","5","\"","}">>
S_JTrue == <<"{","\"","a","\"",":"," ","t","r","u","e","}">>
S_JHalf == <<"{","\"","a","\"",":"," ","0",".","5","}">>
S_JFenced == <<"backtick","backtick","backtick","j","s","o","n","\n","{","\"","a","\"",":"," ","n","u","l","l","}","\n","backtick","backtick","backtick">>
S_Zero == <<"0">>
S_12_5 == <<"1","2",",","5">>
S_true == <<"t","r","u","e">>
S_Evet == <<"E","v","e","t">>
S_CommaList == <<"a",","," ","b">>
S_OpenList == <<"[","1">>
S_FencedList == S_Fence \o S_CommaList \o S_Fence

ValueStrings == {<<>>, <<" ">>, <<"x">>, S_Zero, S_12_5, S_true, S_Evet, S_CommaList,
                 S_OpenList, S_JEmptyList, S_JEmptyDict, S_JNull, S_JText, S_JTrue,
                 S_JHalf, S_JFenced, S_FencedList}

\* json.loads(s) for the cleaned strings of the enumeration: the parsed
\* value, or JSONDecodeError.
json_loads(s) ==
    LET ok(v) == [outcome |-> "ok", parsed |-> v]
        error == [outcome |-> "JSONDecodeError", parsed |-> NoneValue]
    IN  CASE s = S_JEmptyList -> ok(PyList(<<>>))
          [] s = S_JEmptyDict -> ok(PyDict(<<>>, <<>>))
          [] s = S_JNull      -> ok(PyDict(<<"a">>, <<NoneValue>>))
          [] s = S_JText      -> ok(PyDict(<<"a">>, <<PyStr(S_12_5)>>))
          [] s = S_JTrue      -> ok(PyDict(<<"a">>, <<PyBool(TRUE)>>))
          [] s = S_JHalf      -> ok(PyDict(<<"a">>, <<Float(5, 1)>>))
          [] s = S_Zero       -> ok(Float(0, 0))
          [] s = S_true       -> ok(PyBool(TRUE))
          [] s \in {<<>>, <<"x">>, S_12_5, S_Evet, S_CommaList, S_OpenList} -> error

\* The type the schema gives a key: that of the last property with this
\* name (prop_map), "<absent>" when the key is not in the schema.
PropType(key, properties) ==
    LET at == {i \in 1..Len(properties) : properties[i].name = key}
    IN  IF at = {} THEN "<absent>"
        ELSE properties[CHOOSE i \in at : \A j \in at : j <= i].type

\* The conversion of one property value (lines 542-566); the properties of
\* the enumeration have no item or property schema of their own.
ConvertProperty(v, prop_type) ==
    CASE prop_type = "number"  -> convert_number(PyToStr(v))
      [] prop_type = "boolean" -> PyBool(convert_boolean(PyToStr(v)))
      [] OTHER                 -> v

\* _convert_nested_types (lines 523-571) for a parsed object.
_convert_nested_types(d, properties) ==
    IF d.kind # "dict" \/ properties = <<>> THEN d
    ELSE PyDict(d.keys,
                [i \in 1..Len(d.keys) |->
                    IF PropType(d.keys[i], properties) = "<absent>" THEN d.items[i]
                    ELSE ConvertProperty(d.items[i], PropType(d.keys[i], properties))])

\* s.startswith('[') or s.startswith('{') for the stripped s
LooksLikeJson(s) == Strip(s) # <<>> /\ Head(Strip(s)) \in {"[", "{"}

\* [item.strip() for item in value.split(c) if item.strip()]
SplitItems(s, c) ==
    LET parts == SelectSeq(Split(s, c), LAMBDA x : Strip(x) # <<>>)
    IN  PyList([i \in 1..Len(parts) |-> PyStr(Strip(parts[i]))])

\* The array branch for a string (lines 455-494), the field having no item
\* schema.
convert_array(s) ==
    LET parsed == json_loads(_clean_markdown_json(s))
    IN  IF parsed.outcome = "ok" /\ parsed.parsed.kind = "list" THEN parsed.parsed
        ELSE IF parsed.outcome # "ok" /\ LooksLikeJson(_clean_markdown_json(s)) THEN PyList(<<>>)
        ELSE IF ~LooksLikeJson(s) /\ (\E i \in 1..Len(s) : s[i] = ",") THEN SplitItems(s, ",")
        ELSE IF ~LooksLikeJson(s) /\ (\E i \in 1..Len(s) : s[i] = "\n") THEN SplitItems(s, "\n")
        ELSE PyList(<<>>)

\* The object branch for a string (lines 495-519).
convert_object(s, properties) ==
    LET parsed == json_loads(_clean_markdown_json(s))
    IN  IF parsed.outcome = "ok" /\ parsed.parsed.kind = "dict"
        THEN _convert_nested_types(parsed.parsed, properties)
        ELSE PyDict(<<"value">>, <<PyStr(s)>>)

\* value is None (line 405)
IsNone(v) == v.kind = "None"

\* _convert_type(value, field_type, field) (lines 403-521).  A value that
\* is no string has no strip(): the AttributeError is caught by the bare
\* except of line 520, which returns the value as it came.
_convert_type(v, field_type, properties) ==
    IF IsNone(v) THEN NoneValue
    ELSE IF field_type = "number"
    THEN IF Falsy(v) THEN NoneValue
         ELSE IF v.kind # "str" THEN v
         ELSE convert_number(v.text)
    ELSE IF field_type = "boolean"
    THEN PyBool(convert_boolean(PyToStr(v)))
    ELSE IF field_type = "array"
    THEN IF v.kind # "str" THEN v ELSE convert_array(v.text)
    ELSE IF field_type = "object"
    THEN IF v.kind # "str"
         THEN IF Falsy(v) THEN PyDict(<<"value">>, <<v>>) ELSE v
         ELSE convert_object(v.text, properties)
    ELSE v

FieldTypes == {"string", "number", "boolean", "array", "object"}

\* The properties of an object field: none, or one property named as the
\* key of the parsed objects ("a") or otherwise ("b").
PropLists ==
    {<<>>} \cup {<<[name |-> n, type |-> ty]>> : n \in {"a", "b"}, ty \in FieldTypes}

TypedInit ==
    /\ pvalue \in {NoneValue} \cup {PyStr(s) : s \in ValueStrings}
    /\ ptype \in FieldTypes
    /\ pprops \in (IF ptype = "object" THEN PropLists ELSE {<<>>})
    /\ presult = NoneValue
    /\ presult2 = NoneValue
    /\ ppc = "value"
    /\ TableIdle
    /\ ClassifierIdle
    /\ SegmenterIdle
    /\ CoercerIdle
    /\ ExtractorIdle
    /\ ManagerIdle
    /\ DocumentIdle
    /\ AnalyzerIdle
    /\ EndpointIdle
    /\ ServiceIdle
    /\ InvoiceIdle

\* One call _convert_type(pvalue, ptype, field).
ConvertType ==
    /\ ppc = "value"
    /\ presult' = _convert_type(pvalue, ptype, pprops)
    /\ ppc' = "done"
    /\ UNCHANGED <<pvalue, ptype, pprops, presult2, tvars, cvars, svars, kvars, xvars, mvars, dvars, avars, hvars, lvars, ivars>>

\* A second call, on the value the first call returned.
Reconvert ==
    /\ ppc = "done"
    /\ presult2' = _convert_type(presult, ptype, pprops)
    /\ ppc' = "redone"
    /\ UNCHANGED <<pvalue, ptype, pprops, presult, tvars, cvars, svars, kvars, xvars, mvars, dvars, avars, hvars, lvars, ivars>>

TypedNext == ConvertType \/ Reconvert

SpecTyped == TypedInit /\ [][TypedNext]_vars

(***************************************************************************)
(* Properties of typed coercion                                            *)
(***************************************************************************)
\* C13: null is coerced to null for every target type, at the top level
\* and for a property of a parsed object whose value is null.
C13_NullStaysNull ==
    ppc \in {"done", "redone"} =>
        /\ pvalue = NoneValue => presult = NoneValue
        /\ (ptype = "object" /\ pvalue \in {PyStr(S_JNull), PyStr(S_JFenced)}) =>
               presult = PyDict(<<"a">>, <<NoneValue>>)

\* C14: for every value v that _convert_type returns for type 'number' or
\* 'boolean', _convert_type(v, same type) returns v.
C14_Idempotent ==
    (ppc = "redone" /\ ptype \in {"number", "boolean"}) => presult2 = presult

\* The string, once its markdown fence is removed, is a valid JSON array.
ValidArray(s) ==
    /\ json_loads(_clean_markdown_json(s)).outcome = "ok"
    /\ json_loads(_clean_markdown_json(s)).parsed.kind = "list"

\* C25: array coercion of a string always returns a list: the parsed list
\* when the string without its fence is a valid array; otherwise items split
\* at commas or at line breaks (or nothing) only when the raw string does
\* not start with '[' or '{'; otherwise the empty list.  The items of a
\* fallback split never contain a markdown fence marker.
C25_ArrayCoercion ==
    (ppc = "done" /\ ptype = "array" /\ pvalue.kind = "str") =>
        /\ presult.kind = "list"
        /\ IF ValidArray(pvalue.text)
           THEN presult = json_loads(_clean_markdown_json(pvalue.text)).parsed
           ELSE IF LooksLikeJson(pvalue.text)
           THEN presult = PyList(<<>>)
           ELSE /\ presult \in {SplitItems(pvalue.text, ","), SplitItems(pvalue.text, "\n"),
                                SplitItems(_clean_markdown_json(pvalue.text), ","),
                                SplitItems(_clean_markdown_json(pvalue.text), "\n"),
                                PyList(<<>>)}
                /\ \A i \in 1..Len(presult.items) :
                       ~Contains(S_Fence, presult.items[i].text)

(***************************************************************************)
(* DocumentTemplateManager: detect_document_type and extract_data          *)
(***************************************************************************)
\* Detection patterns: literal words, so that re.search(pattern, text_lower)
\* is a substring test.
DetectionPool == << <<"f","a","t","u","r","a">>, <<"e","t","t","n">>, <<"v","e","r","g","i">> >>

\* The detection-pattern lists of the templates: none, the first pattern, all.
DetectionLists == {<<>>, SubSeq(DetectionPool, 1, 1), DetectionPool}

\* The fields of the templates of the model: a metadata field and a totals
\* field of the default template (lines 58-66 and 118-121).
TemplateFields == <<
    [name |-> "fatura_no", data_type |-> "string"],
    [name |-> "kdv_matrahi", data_type |-> "amount"] >>

\* Largest number of registered templates.
MaxTemplates == 2

\* The ids under which the templates are registered, in registration order.
TemplateIds == <<"t1", "t2", "t3", "t4">>

\* The id of the k-th registered template.
TemplateId(k) == TemplateIds[k]

\* self.templates after startup: a dict, iterated in registration order.
Templates == {[detection_patterns |-> dl, fields |-> TemplateFields] : dl \in DetectionLists}

Registries == UNION {[1..n -> Templates] : n \in 0..MaxTemplates}

\* The texts of the calls.
X_FaturaNo == <<"F","a","t","u","r","a"," ","N","o",":"," ","A","B","C","1","2","3">>
X_Amount == <<"E","T","T","N"," ","V","e","r","g","i","\n","K","D","V"," ","M","a","t","r","a","h","i",":"," ","1",".","2","4","5",",","0","9"," ","T","L">>
X_BadAmount == <<"F","a","t","u","r","a"," ","E","T","T","N","\n","K","D","V"," ","M","a","t","r","a","h","i",":"," ","1",",","2",",","3"," ","T","L">>
X_Words == <<"K","D","V"," ","M","a","t","r","a","h","i",":"," ","a","b","c">>

Texts == {X_FaturaNo, X_Amount, X_BadAmount, X_Words}

\* match_count (lines 184-187)
match_count(template, text) ==
    Cardinality({i \in 1..Len(template.detection_patterns) :
                    Contains(template.detection_patterns[i], Lower(text))})

\* match_count >= len(template.detection_patterns) * 0.6 (line 190)
Detected(template, text) ==
    10 * match_count(template, text) >= 6 * Len(template.detection_patterns)

\* detect_document_type(text) (lines 174-193): the id of the first template
\* that passes, None when no template passes.
detect_document_type(reg, text) ==
    IF \E k \in 1..Len(reg) : Detected(reg[k], text)
    THEN TemplateId(CHOOSE k \in 1..Len(reg) :
             Detected(reg[k], text) /\ \A j \in 1..(k - 1) : ~Detected(reg[j], text))
    ELSE "<None>"

\* detect_document_type on the registries and texts of the model, tabulated.
detect_document_type_of ==
    [reg \in Registries, text \in Texts |-> detect_document_type(reg, text)]

\* The result record of a call that has not extracted anything.
NoExtraction ==
    [sender |-> <<>>, recipient |-> <<>>, invoice_metadata |-> <<>>, totals |-> <<>>,
     line_items |-> <<>>]

\* DocumentTemplateManager.__init__ has registered the templates; no call yet.
ManagerInit ==
    /\ registry \in Registries
    /\ m_op = "idle"
    /\ m_tid = "<none>"
    /\ m_text = <<>>
    /\ m_tables = <<>>
    /\ m_detected = "<None>"
    /\ m_extracted = NoExtraction
    /\ m_exc = "none"
    /\ LLM_AVAILABLE \in BOOLEAN
    /\ TableIdle
    /\ ClassifierIdle
    /\ SegmenterIdle
    /\ CoercerIdle
    /\ ExtractorIdle
    /\ TypedIdle
    /\ DocumentIdle
    /\ AnalyzerIdle
    /\ EndpointIdle
    /\ ServiceIdle
    /\ InvoiceIdle

\* A detect_document_type that would empty self.templates.
Detect_ClearsTemplates ==
    /\ \E text \in Texts :
          /\ m_op' = "detect"
          /\ m_text' = text
          /\ m_detected' = detect_document_type_of[registry, text]
    /\ m_tid' = "<none>"
    /\ m_tables' = <<>>
    /\ m_extracted' = NoExtraction
    /\ m_exc' = "none"
    /\ registry' = <<>>
    /\ UNCHANGED <<LLM_AVAILABLE, tvars, cvars, svars, kvars, xvars, pvars, dvars, avars, hvars, lvars, ivars>>

\* A call of detect_document_type(text).
Detect ==
    /\ \E text \in Texts :
          /\ m_op' = "detect"
          /\ m_text' = text
          /\ m_detected' = detect_document_type_of[registry, text]
    /\ m_tid' = "<none>"
    /\ m_tables' = <<>>
    /\ m_extracted' = NoExtraction
    /\ m_exc' = "none"
    /\ UNCHANGED <<registry, LLM_AVAILABLE, tvars, cvars, svars, kvars, xvars, pvars, dvars, avars, hvars, lvars, ivars>>

\* _extract_key_value_pairs(text) (lines 388-415): a dict in insertion
\* order; a later line with the same key replaces the val in place.
DictPut(pairs, key, val) ==
    IF \E i \in 1..Len(pairs) : pairs[i].key = key
    THEN [i \in 1..Len(pairs) |-> IF pairs[i].key = key THEN [key |-> key, value |-> val] ELSE pairs[i]]
    ELSE Append(pairs, [key |-> key, value |-> val])

RECURSIVE PairsOfLines(_, _)
PairsOfLines(lines, pairs) ==
    IF lines = <<>> THEN pairs
    ELSE LET line == Strip(Head(lines))
             colon == FindFrom(<<":">>, line, 1)
             key == Lower(Strip(SubSeq(line, 1, colon - 1)))
             val == Strip(SubSeq(line, colon + 1, Len(line)))
         IN  IF line # <<>> /\ colon > 0 /\ key # <<>> /\ val # <<>>
             THEN PairsOfLines(Tail(lines), DictPut(pairs, key, val))
             ELSE PairsOfLines(Tail(lines), pairs)

_extract_key_value_pairs(text) == PairsOfLines(Split(text, "\n"), <<>>)

\* str.upper() of one character of the values of the model.
UpperChar(c) ==
    IF \E A \in DOMAIN LowerOf : LowerOf[A] = c
    THEN CHOOSE A \in DOMAIN LowerOf : LowerOf[A] = c
    ELSE IF c = "i_dotless" THEN "I"
    ELSE c

Upper(s) == [i \in 1..Len(s) |-> UpperChar(s[i])]

\* \w of the regular expressions
WordChar(c) ==
    \/ c \in Digits
    \/ c \in DOMAIN LowerOf
    \/ \E A \in DOMAIN LowerOf : LowerOf[A] = c
    \/ c \in {"_", "i_dotless", "I_dot", "s_cedilla", "S_cedilla", "o_uml", "O_uml", "u_uml", "U_uml"}

\* The alternatives of the currency pattern, in the order of the pattern (line 487).
currency_codes == << <<"T","L">>, <<"T","R","Y">>, <<"U","S","D">>, <<"E","U","R">>, <<"G","B","P">>, <<"C","H","F">>, <<"J","P","Y">>, <<"C","N","Y">> >>

\* \b(code)\b matches at offset i of s
CodeAt(s, code, i) ==
    /\ i + Len(code) <= Len(s)
    /\ SubSeq(s, i + 1, i + Len(code)) = code
    /\ (i = 0 \/ ~WordChar(s[i]))
    /\ (i + Len(code) = Len(s) \/ ~WordChar(s[i + Len(code) + 1]))

\* re.search(r'\b(TL|...|CNY)\b', s).group(1), None without a match: the
\* leftmost offset wins, and at one offset the first alternative.
currency_search(s) ==
    IF \E i \in 0..Len(s), k \in 1..Len(currency_codes) : CodeAt(s, currency_codes[k], i)
    THEN LET i0 == CHOOSE i \in 0..Len(s) :
                       /\ \E k \in 1..Len(currency_codes) : CodeAt(s, currency_codes[k], i)
                       /\ \A j \in 0..(i - 1), k \in 1..Len(currency_codes) :
                              ~CodeAt(s, currency_codes[k], j)
             k0 == CHOOSE k \in 1..Len(currency_codes) :
                       /\ CodeAt(s, currency_codes[k], i0)
                       /\ \A j \in 1..(k - 1) : ~CodeAt(s, currency_codes[j], i0)
         IN  currency_codes[k0]
    ELSE None

\* s.replace(sub, '') for a non-empty sub: the occurrences from the left,
\* without overlap.
RECURSIVE RemoveSubstr(_, _)
RemoveSubstr(s, sub) ==
    IF Len(s) < Len(sub) THEN s
    ELSE IF SubSeq(s, 1, Len(sub)) = sub
    THEN RemoveSubstr(SubSeq(s, Len(sub) + 1, Len(s)), sub)
    ELSE <<Head(s)>> \o RemoveSubstr(Tail(s), sub)

\* The loop of lines 492-493.
RECURSIVE RemoveCodes(_, _)
RemoveCodes(s, codes) ==
    IF codes = <<>> THEN s ELSE RemoveCodes(RemoveSubstr(s, Head(codes)), Tail(codes))

\* An amount of the result: {"amount": float, "currency": str}
Amount(amount, currency) == [kind |-> "amount", amount |-> amount, currency |-> currency]

\* clean_value of the amount branch (lines 491-497)
clean_amount(val) ==
    ReplaceChar(RemoveAll(Strip(RemoveCodes(Upper(val), currency_codes)), "."), ",", ".")

\* _parse_value(value, data_type) for a string value (lines 463-520); the
\* ValueError of float() is caught and the string is returned as it came.
\* (After the blanks are stripped, float() takes digits with at most one
\* '.'; the values of the model hold no exponent, sign, 'inf' or 'nan'.)
_parse_value(val, data_type) ==
    IF data_type = "amount"
    THEN IF FloatAccepts(clean_amount(val))
         THEN Amount(FloatOf(clean_amount(val)),
                     IF currency_search(Upper(val)) = None
                     THEN <<"T","R","Y">> ELSE currency_search(Upper(val)))
         ELSE PyStr(val)
    ELSE PyStr(val)

\* match.group(1) of the first pattern of the field that
\* re.search(pattern, text, re.IGNORECASE) finds in the text, None when no
\* pattern of the field matches (lines 430-432), for the fields and texts
\* of the model.
field_search(name, text) ==
    CASE name = "fatura_no" /\ text = X_FaturaNo    -> <<"A","B","C","1","2","3">>
      [] name = "kdv_matrahi" /\ text = X_Amount    -> <<"1",".","2","4","5",",","0","9"," ","T","L">>
      [] name = "kdv_matrahi" /\ text = X_BadAmount -> <<"1",",","2",",","3"," ","T","L">>
      [] OTHER                                      -> None

\* target.lower().replace('_', ' ') (line 456)
S_fatura_no == <<"f","a","t","u","r","a"," ","n","o">>
S_kdv_matrahi == <<"k","d","v"," ","m","a","t","r","a","h","i">>

fuzzy_target(name) ==
    CASE name = "fatura_no"   -> S_fatura_no
      [] name = "kdv_matrahi" -> S_kdv_matrahi

\* SequenceMatcher(None, target, candidate).ratio() in thousandths, for the
\* targets and the keys of the texts of the model.
ratio(target, candidate) ==
    CASE target = candidate -> 1000
      [] target = S_fatura_no /\ candidate = S_kdv_matrahi -> 400
      [] target = S_kdv_matrahi /\ candidate = S_fatura_no -> 400

\* threshold of _fuzzy_match, in thousandths (line 443)
MatchThreshold == 600

\* _fuzzy_match(target, candidate) (lines 443-461)
_fuzzy_match(name, candidate) == ratio(fuzzy_target(name), Lower(candidate)) >= MatchThreshold

\* The loop over kv_pairs of lines 437-439.
RECURSIVE FuzzyLookup(_, _)
FuzzyLookup(field, kv_pairs) ==
    IF kv_pairs = <<>> THEN NoneValue
    ELSE IF _fuzzy_match(field.name, Head(kv_pairs).key)
    THEN _parse_value(Head(kv_pairs).value, field.data_type)
    ELSE FuzzyLookup(field, Tail(kv_pairs))

\* _extract_field(text, field, kv_pairs) (lines 417-441)
_extract_field(text, field, kv_pairs) ==
    IF field_search(field.name, text) # None
    THEN _parse_value(Strip(field_search(field.name, text)), field.data_type)
    ELSE FuzzyLookup(field, kv_pairs)

\* field_keywords.get(field.name, []) (lines 617-627), for the fields of the model.
field_keywords(name) ==
    IF name = "kdv_matrahi"
    THEN << <<"k","d","v"," ","m","a","t","r","a","h">>, <<"k","d","v"," ","m","a","t","r","a","h","i_dotless">>, <<"v","a","t"," ","b","a","s","e">> >>
    ELSE <<>>

\* The loop over all_rows of lines 632-656: the first row of two or more
\* cells whose first cell holds a keyword.
RECURSIVE ScanRows(_, _)
ScanRows(all_rows, field) ==
    IF all_rows = <<>> THEN NoneValue
    ELSE LET row == Head(all_rows)
             key == Strip(Lower(Str(row[1])))
         IN  IF Len(row) >= 2 /\ \E k \in 1..Len(field_keywords(field.name)) :
                                    Contains(field_keywords(field.name)[k], key)
             THEN _parse_value(Strip(Str(row[2])), field.data_type)
             ELSE ScanRows(Tail(all_rows), field)

\* _extract_from_table(table, field) (lines 595-661)
_extract_from_table(t, field) ==
    ScanRows((IF t.headers # <<>> THEN <<t.headers>> ELSE <<>>) \o t.rows, field)

metadata_field_names ==
    {"fatura_no", "tarih", "ettn", "ozellestirme_no", "senaryo", "fatura_tipi", "siparis_no",
     "siparis_tarihi", "son_odeme_tarihi", "olusma_zamani"}

totals_field_names ==
    {"mal_hizmet_toplam", "toplam_iskonto", "kdv_matrahi", "vergi_haric_tutar",
     "hesaplanan_kdv", "vergiler_dahil_toplam", "odenecek_tutar"}

\* A header layout with one tax number.
H_Layout == <<"A","C","M","E","\n","V","K","N",":"," ","1","2","3","4","5","6","7","8","9","0">>

\* The header of a call and what the model call on it does: no header, or
\* a header on which the call raises or answers with names.
HeaderCalls ==
    {[header_layout |-> None, answer |-> "none"],
     [header_layout |-> H_Layout, answer |-> "raises"],
     [header_layout |-> H_Layout, answer |-> "names"]}

\* An entity of the result (lines 230-245).
Entity(raw_text, name, tax_id, tax_id_type) ==
    [raw_text |-> raw_text, name |-> name, address |-> None, tax_id |-> tax_id,
     tax_id_type |-> tax_id_type, tax_office |-> None]

NullEntity == Entity(None, None, None, None)

\* The sender and the recipient after lines 251-329: the block runs only
\* with a header layout and a loaded model, and its exceptions are caught,
\* leaving what was assigned before.
HeaderEntities(header_layout, available, answer) ==
    IF ~Truthy(header_layout) \/ ~available \/ answer # "names"
    THEN [sender |-> NullEntity, recipient |-> NullEntity]
    ELSE [sender |-> Entity(header_layout, <<"A","C","M","E">>,
                            <<"1","2","3","4","5","6","7","8","9","0">>, <<"V","K","N">>),
          recipient |-> Entity(header_layout, None, None, None)]

\* The entries of result[section] for the fields of the template whose
\* name is in names, in the order of template.fields: [name, value]. The
\* value is looked up in the table at totals_idx of ts, or in the text when
\* totals_idx is 0.
RECURSIVE FieldEntries(_, _, _, _, _, _)
FieldEntries(fields, names, text, kv_pairs, ts, totals_idx) ==
    IF fields = <<>> THEN <<>>
    ELSE IF Head(fields).name \in names
    THEN <<[name |-> Head(fields).name,
            value |-> IF totals_idx = 0
                      THEN _extract_field(text, Head(fields), kv_pairs)
                      ELSE _extract_from_table(ts[totals_idx], Head(fields))]>>
         \o FieldEntries(Tail(fields), names, text, kv_pairs, ts, totals_idx)
    ELSE FieldEntries(Tail(fields), names, text, kv_pairs, ts, totals_idx)

\* extract_data for a registered template (lines 225-382).
extract_data(template, text, ts, header_layout, available, answer) ==
    LET kv_pairs == _extract_key_value_pairs(text)
        items_idx == _find_line_items_table(ts)
        entities == HeaderEntities(header_layout, available, answer)
    IN  [sender |-> entities.sender,
         recipient |-> entities.recipient,
         invoice_metadata |-> FieldEntries(template.fields, metadata_field_names, text, kv_pairs, ts, 0),
         totals |-> FieldEntries(template.fields, totals_field_names, text, kv_pairs, ts,
                                 _find_totals_table(ts)),
         line_items |-> IF items_idx = 0 THEN None ELSE ts[items_idx].rows]

\* The template ids of the calls: the registered ones and one that is not.
CallIds == {TemplateId(k) : k \in 1..Len(registry)} \cup {"unknown"}

\* The table lists of the calls.
TableLists == {<<>>, <<TotalsTable(3)>>, <<PlainTable(3)>>}

\* extract_data on the calls of the model, tabulated.
extract_data_of ==
    [template \in Templates, text \in Texts, ts \in TableLists, h \in HeaderCalls, available \in BOOLEAN |->
        extract_data(template, text, ts, h.header_layout, available, h.answer)]

\* template_id in self.templates, and self.templates[template_id]
Registered(reg, tid) == \E k \in 1..Len(reg) : TemplateId(k) = tid
TemplateOf(reg, tid) == reg[CHOOSE k \in 1..Len(reg) : TemplateId(k) = tid]

\* A call of extract_data(template_id, text, tables, header_layout).
ExtractData ==
    /\ \E tid \in CallIds, text \in Texts, ts \in TableLists, h \in HeaderCalls :
          /\ m_op' = "extract"
          /\ m_tid' = tid
          /\ m_text' = text
          /\ m_tables' = ts
          /\ IF ~Registered(registry, tid)
             THEN /\ m_exc' = "ValueError"
                  /\ m_extracted' = NoExtraction
             ELSE /\ m_exc' = "none"
                  /\ m_extracted' = extract_data_of[TemplateOf(registry, tid), text, ts, h, LLM_AVAILABLE]
    /\ m_detected' = "<None>"
    /\ UNCHANGED <<registry, LLM_AVAILABLE, tvars, cvars, svars, kvars, xvars, pvars, dvars, avars, hvars, lvars, ivars>>

ManagerNext == Detect \/ ExtractData

SpecManager == ManagerInit /\ [][ManagerNext]_vars

(***************************************************************************)
(* Properties of the template manager                                      *)
(***************************************************************************)
\* The template at position k reaches 60% of its own pattern count on the text.
ReachesSixtyPercent(k, text) ==
    100 * match_count(registry[k], text) >= 60 * Len(registry[k].detection_patterns)

\* C15: detect_document_type returns the id of the first-registered
\* template for which the number of its detection patterns matching the
\* text is at least 60% of its own pattern count, and returns null when the
\* text matches none of the detection patterns of any registered template,
\* also for a registered template whose detection-pattern list is empty.
C15_DetectFirstAtSixtyPercent ==
    m_op = "detect" =>
        /\ \A k \in 1..Len(registry) :
               (ReachesSixtyPercent(k, m_text) /\ \A j \in 1..(k - 1) : ~ReachesSixtyPercent(j, m_text))
                   => m_detected = TemplateId(k)
        /\ (\A k \in 1..Len(registry) : match_count(registry[k], m_text) = 0)
               => m_detected = "<None>"

\* The value of a field of the given data type is typed: null, or an
\* amount for an amount field, or the extracted string for a string field.
TypedValue(v, data_type) ==
    \/ v.kind = "None"
    \/ data_type = "amount" /\ v.kind = "amount"
    \/ data_type # "amount" /\ v.kind = "str"

\* The data type of the field of the template with the given name.
DataTypeOf(template, name) ==
    LET k == CHOOSE i \in 1..Len(template.fields) : template.fields[i].name = name
    IN  template.fields[k].data_type

\* C16: extract_data raises only for an unregistered template_id, before
\* any extraction step; for a registered template_id the call returns and
\* every metadata and totals field whose lookup or parsing fails is null,
\* never a raw unparsed string in place of a typed value.
C16_OnlyUnknownTemplateRaises ==
    m_op = "extract" =>
        /\ m_exc # "none" <=> ~Registered(registry, m_tid)
        /\ m_exc # "none" => m_extracted = NoExtraction
        /\ m_exc = "none" =>
               LET template == TemplateOf(registry, m_tid)
                   entries == m_extracted.invoice_metadata \o m_extracted.totals
               IN  \A i \in 1..Len(entries) :
                       TypedValue(entries[i].value, DataTypeOf(template, entries[i].name))

ExtractedAlone(field) ==
    IF field.method = "regex" THEN _extract_with_regex(field.patterns)
    ELSE _extract_with_fuzzy(field.keywords)

\* C17: when LLMService.is_available() is false, every llm-method field of
\* the schema resolves to null, no exception reaches the caller, and the
\* regex and fuzzy fields of the same run are still extracted and returned.
C17_DegradesWithoutModel ==
    ~llm_loaded =>
        /\ xpc # "raised"
        /\ \A i \in 1..Len(data) : schema[i].method = "llm" => data[i] = NoneValue
        /\ xpc = "returned" =>
               /\ Len(data) = Len(schema)
               /\ \A i \in 1..Len(schema) :
                      schema[i].method # "llm" => data[i] = ExtractedAlone(schema[i]).val

(***************************************************************************)
(* Properties of header inference on key-value grids                       *)
(***************************************************************************)
\* Every row of the grid has two cells and a first cell that ends with ':'.
ColonGrid(grid) ==
    \A i \in 1..Len(grid) :
        /\ Len(grid[i]) = 2
        /\ grid[i][1] # None
        /\ EndsWith(grid[i][1], ":")

\* C19: for every 2-column grid in which every first-column cell ends
\* with ':', _detect_header returns false (it returns, and with False).
C19_ColonGridHasNoHeader ==
    (ColonGrid(table) /\ hdr_mode = "inferred") =>
        /\ ~(tpc = "raised" /\ exc = "IndexError")
        /\ ~has_header

\* Header inference has run on a 2-column grid whose first cells all end
\* with ':' and one of whose cells is a lone sign.
C19_Witness ==
    /\ ColonGrid(table)
    /\ hdr_mode = "inferred"
    /\ tpc = "df"
    /\ Len(table) = 2
    /\ \E i \in 1..Len(table) : table[i][2] = <<"-">>

(***************************************************************************)
(* Document extraction: TableExtractor.extract_all_tables and              *)
(* PDFAnalyzer.extract_basic_analysis over the pages of a document         *)
(***************************************************************************)
\* The raw grids of the pages: a 2-column grid without header, a grid with
\* a header row, a grid with lone signs (its inference raises IndexError)
\* and a grid whose header row is wider than its data (its DataFrame
\* raises ValueError).
G_Plain == << <<S_Ali, S_120_50>>, <<S_Veli, S_75_00>> >>
G_Items == << <<<<"N","o">>, <<"A","d">>, S_Tutar>>, <<<<"1">>, S_Ali, S_120_50>> >>
G_Signs == << <<<<"-">>, <<"1">>, <<"2">>>>, <<<<"-">>, <<"1">>, <<"2">>>> >>
G_Ragged == << <<<<"N","o">>, <<"A","d">>, S_Tutar>>, <<S_Ali, S_120_50>> >>

PageGridPool == {G_Plain, G_Items, G_Signs, G_Ragged}

\* page.extract_tables() of a page: no grid, one grid or two grids.
PageGrids ==
    {<<>>} \cup {<<g>> : g \in PageGridPool} \cup {<<g, h>> : g \in PageGridPool, h \in PageGridPool}

\* Largest number of pages of a document.
MaxPages == 2

Documents == UNION {[1..n -> PageGrids] : n \in 1..MaxPages}

\* One iteration of the loop of _extract_tables_pdfplumber (lines 105-134)
\* with the default arguments (auto_detect_header, no forced header): the
\* grid is skipped, or an exception leaves the loop, or a DataFrame is kept.
extract_table(tbl, order) ==
    IF Len(tbl) < TABLE_MIN_ROWS
    THEN [kind |-> "skipped", exc |-> "none", frame |-> NoFrame, has_header |-> FALSE]
    ELSE IF detect_header_raises(tbl)
    THEN [kind |-> "raised", exc |-> "IndexError", frame |-> NoFrame, has_header |-> FALSE]
    ELSE IF FrameRaises(tbl, _detect_header(tbl, order))
    THEN [kind |-> "raised", exc |-> "ValueError", frame |-> NoFrame, has_header |-> FALSE]
    ELSE LET hh == _detect_header(tbl, order)
             cleaned == _clean_dataframe(BuildFrame(tbl, hh))
         IN  IF Len(cleaned.columns) >= TABLE_MIN_COLS
             THEN [kind |-> "df", exc |-> "none", frame |-> cleaned, has_header |-> hh]
             ELSE [kind |-> "skipped", exc |-> "none", frame |-> NoFrame, has_header |-> FALSE]

\* The loop over the grids of a page: there is no try around an iteration,
\* so the exception of one grid leaves _extract_tables_pdfplumber and the
\* DataFrames collected before it are lost with it.
RECURSIVE PageLoop(_, _, _)
PageLoop(grids, order, dataframes) ==
    IF grids = <<>> THEN [exc |-> "none", dataframes |-> dataframes]
    ELSE LET r == extract_table(Head(grids), order)
         IN  IF r.kind = "raised" THEN [exc |-> r.exc, dataframes |-> <<>>]
             ELSE IF r.kind = "df"
             THEN PageLoop(Tail(grids), order,
                           Append(dataframes, [frame |-> r.frame, has_header |-> r.has_header]))
             ELSE PageLoop(Tail(grids), order, dataframes)

\* extract_tables_from_page(page_num) (lines 62-85, 87-136)
extract_tables_from_page(grids, order) == PageLoop(grids, order, <<>>)

\* extract_tables_from_page on the pages of the model, tabulated.
extract_tables_from_page_of ==
    [grids \in PageGrids, order \in TypeOrders |-> extract_tables_from_page(grids, order)]

DocumentInit ==
    /\ doc \in Documents
    /\ d_order \in TypeOrders
    /\ d_mode = "none"
    /\ d_page = 0
    /\ d_result = <<>>
    /\ d_pc = "ready"
    /\ d_exc = "none"
    /\ TableIdle
    /\ ClassifierIdle
    /\ SegmenterIdle
    /\ CoercerIdle
    /\ ExtractorIdle
    /\ TypedIdle
    /\ ManagerIdle
    /\ AnalyzerIdle
    /\ EndpointIdle
    /\ ServiceIdle
    /\ InvoiceIdle

\* extract_all_tables() up to its loop (lines 164-168): detect_tables has
\* found the pages with tables.
StartAllTables ==
    /\ d_pc = "ready"
    /\ d_mode' = "extract_all_tables"
    /\ d_page' = 1
    /\ d_pc' = "pages"
    /\ UNCHANGED <<doc, d_order, d_result, d_exc, tvars, cvars, svars, kvars, xvars, pvars, mvars, avars, hvars, lvars, ivars>>

\* extract_basic_analysis() up to its loop (lines 144-150).
StartBasicAnalysis ==
    /\ d_pc = "ready"
    /\ d_mode' = "extract_basic_analysis"
    /\ d_page' = 1
    /\ d_pc' = "pages"
    /\ UNCHANGED <<doc, d_order, d_result, d_exc, tvars, cvars, svars, kvars, xvars, pvars, mvars, avars, hvars, lvars, ivars>>

\* One page of extract_all_tables (lines 169-179): a page without tables
\* is not in page_tables; the exception of a page is caught and the page
\* left out; an empty list is not stored.
AllTablesPage ==
    /\ d_pc = "pages"
    /\ d_mode = "extract_all_tables"
    /\ d_page <= Len(doc)
    /\ LET r == extract_tables_from_page_of[doc[d_page], d_order]
       IN  d_result' = Append(d_result, IF r.exc = "none" THEN r.dataframes ELSE <<>>)
    /\ d_page' = d_page + 1
    /\ UNCHANGED <<doc, d_order, d_mode, d_pc, d_exc, tvars, cvars, svars, kvars, xvars, pvars, mvars, avars, hvars, lvars, ivars>>

\* One page of extract_basic_analysis (lines 151-170): the exception of a
\* page reaches the handler of line 183, which raises PDFAnalyzerError.
BasicAnalysisPage ==
    /\ d_pc = "pages"
    /\ d_mode = "extract_basic_analysis"
    /\ d_page <= Len(doc)
    /\ LET r == extract_tables_from_page_of[doc[d_page], d_order]
       IN  IF r.exc = "none"
           THEN /\ d_result' = Append(d_result,
                                      [i \in 1..Len(r.dataframes) |->
                                          table_to_dict(r.dataframes[i].frame, r.dataframes[i].has_header)])
                /\ d_page' = d_page + 1
                /\ UNCHANGED <<d_pc, d_exc>>
           ELSE /\ d_result' = <<>>
                /\ d_pc' = "raised"
                /\ d_exc' = "PDFAnalyzerError"
                /\ UNCHANGED d_page
    /\ UNCHANGED <<doc, d_order, d_mode, tvars, cvars, svars, kvars, xvars, pvars, mvars, avars, hvars, lvars, ivars>>

\* The loop is over: the call returns (lines 181, 172-181).
DocumentReturn ==
    /\ d_pc = "pages"
    /\ d_page > Len(doc)
    /\ d_pc' = "returned"
    /\ UNCHANGED <<doc, d_order, d_mode, d_page, d_result, d_exc, tvars, cvars, svars, kvars, xvars, pvars, mvars, avars, hvars, lvars, ivars>>

DocumentNext ==
    \/ StartAllTables
    \/ StartBasicAnalysis
    \/ AllTablesPage
    \/ BasicAnalysisPage
    \/ DocumentReturn

SpecDocument == DocumentInit /\ [][DocumentNext]_vars

(***************************************************************************)
(* Properties of document extraction                                       *)
(***************************************************************************)
\* The tables of a page that extract on their own, in page order, as
\* DataFrames with their header decision.
RECURSIVE TablesOnTheirOwn(_, _)
TablesOnTheirOwn(grids, order) ==
    IF grids = <<>> THEN <<>>
    ELSE LET r == extract_table(Head(grids), order)
         IN  (IF r.kind = "df" THEN <<[frame |-> r.frame, has_header |-> r.has_header]>> ELSE <<>>)
             \o TablesOnTheirOwn(Tail(grids), order)

\* C20: a failure while inferring the header of, or normalizing, one raw
\* table never aborts the extraction of the document and never removes
\* other tables from the result: extract_all_tables and
\* extract_basic_analysis return every other table of the same page and of
\* the other pages.
C20_TableFailureStaysLocal ==
    /\ d_pc # "raised"
    /\ d_pc = "returned" =>
           \A p \in 1..Len(doc) :
               LET own == TablesOnTheirOwn(doc[p], d_order)
               IN  IF d_mode = "extract_all_tables"
                   THEN d_result[p] = own
                   ELSE d_result[p] = [i \in 1..Len(own) |-> table_to_dict(own[i].frame, own[i].has_header)]

(***************************************************************************)
(* PDFAnalyzer.extract_with_template: text, template, optional inputs,     *)
(* then the call of template_manager.extract_data                          *)
(***************************************************************************)
\* The parameters of DocumentTemplateManager.extract_data
\* (document_templates.py, lines 195-202), those without a default.
extract_data_parameters == {"template_id", "text", "tables", "header_layout", "invoice_metadata"}
extract_data_required == {"template_id", "text"}

\* The keyword arguments of the call of lines 490-496.
call_keywords == {"template_id", "text", "tables", "sender_recipient_blocks", "invoice_metadata"}

\* Python binds a call only when every keyword names a parameter and every
\* parameter without a default is given; otherwise the call raises
\* TypeError before the body runs.
Binds(keywords, parameters, required) ==
    keywords \subseteq parameters /\ required \subseteq keywords

\* The optional inputs of lines 460-487; each extraction that fails is
\* caught and leaves its input at None (the tables at []).
OptionalInputs == {"sender_recipient_blocks", "invoice_metadata", "tables"}

\* The template_id arguments: None, the registered ids, an unknown id.
TemplateArgs(reg) == {"<None>", "unknown"} \cup {TemplateId(k) : k \in 1..Len(reg)}

AnalyzerInit ==
    /\ a_templates \in Registries
    /\ a_tid \in TemplateArgs(a_templates)
    /\ a_text \in Texts
    /\ a_readable \in BOOLEAN
    /\ a_gathered = {}
    /\ a_pc = "start"
    /\ a_exc = "none"
    /\ a_cause = "none"
    /\ a_result = "none"
    /\ TableIdle
    /\ ClassifierIdle
    /\ SegmenterIdle
    /\ CoercerIdle
    /\ ExtractorIdle
    /\ TypedIdle
    /\ ManagerIdle
    /\ DocumentIdle
    /\ EndpointIdle
    /\ ServiceIdle
    /\ InvoiceIdle

\* Lines 445-450: the text of every page; a PDFReaderError is turned into
\* PDFAnalyzerError by the handler of lines 503-507.
ReadText ==
    /\ a_pc = "start"
    /\ IF a_readable
       THEN /\ a_pc' = "text"
            /\ UNCHANGED <<a_exc, a_cause>>
       ELSE /\ a_pc' = "raised"
            /\ a_cause' = "PDFReaderError"
            /\ a_exc' = "PDFAnalyzerError"
    /\ UNCHANGED <<a_templates, a_tid, a_text, a_readable, a_gathered, a_result>>
    /\ UNCHANGED <<tvars, cvars, svars, kvars, xvars, pvars, mvars, dvars, hvars, lvars, ivars>>

\* Lines 452-458: auto-detection when no template_id was given; the
\* PDFAnalyzerError raised inside the try is caught by the handler of
\* lines 508-512 and raised again as PDFAnalyzerError.
ResolveTemplate ==
    /\ a_pc = "text"
    /\ IF a_tid # "<None>"
       THEN /\ a_pc' = "template"
            /\ UNCHANGED <<a_tid, a_exc, a_cause>>
       ELSE IF detect_document_type_of[a_templates, a_text] # "<None>"
       THEN /\ a_tid' = detect_document_type_of[a_templates, a_text]
            /\ a_pc' = "template"
            /\ UNCHANGED <<a_exc, a_cause>>
       ELSE /\ a_pc' = "raised"
            /\ a_cause' = "PDFAnalyzerError"
            /\ a_exc' = "PDFAnalyzerError"
            /\ UNCHANGED a_tid
    /\ UNCHANGED <<a_templates, a_text, a_readable, a_gathered, a_result>>
    /\ UNCHANGED <<tvars, cvars, svars, kvars, xvars, pvars, mvars, dvars, hvars, lvars, ivars>>

\* Lines 460-487: the blocks, the metadata and the tables, each in a try of
\* its own; got are the ones whose extraction succeeded.
GatherInputs(got) ==
    /\ a_pc = "template"
    /\ a_gathered' = got
    /\ a_pc' = "gathered"
    /\ UNCHANGED <<a_templates, a_tid, a_text, a_readable, a_exc, a_cause, a_result>>
    /\ UNCHANGED <<tvars, cvars, svars, kvars, xvars, pvars, mvars, dvars, hvars, lvars, ivars>>

\* Lines 489-512: the call of extract_data.  A TypeError of the call, or
\* the ValueError of extract_data for an unknown template, is caught by the
\* handler of lines 508-512 and raised again as PDFAnalyzerError.
CallExtractData ==
    /\ a_pc = "gathered"
    /\ IF ~Binds(call_keywords, extract_data_parameters, extract_data_required)
       THEN /\ a_pc' = "raised"
            /\ a_cause' = "TypeError"
            /\ a_exc' = "PDFAnalyzerError"
            /\ UNCHANGED a_result
       ELSE IF ~Registered(a_templates, a_tid)
       THEN /\ a_pc' = "raised"
            /\ a_cause' = "ValueError"
            /\ a_exc' = "PDFAnalyzerError"
            /\ UNCHANGED a_result
       ELSE /\ a_pc' = "returned"
            /\ a_result' = "success"
            /\ UNCHANGED <<a_exc, a_cause>>
    /\ UNCHANGED <<a_templates, a_tid, a_text, a_readable, a_gathered>>
    /\ UNCHANGED <<tvars, cvars, svars, kvars, xvars, pvars, mvars, dvars, hvars, lvars, ivars>>

AnalyzerNext ==
    \/ ReadText
    \/ ResolveTemplate
    \/ \E got \in SUBSET OptionalInputs : GatherInputs(got)
    \/ CallExtractData

SpecAnalyzer == AnalyzerInit /\ [][AnalyzerNext]_vars

(***************************************************************************)
(* Properties of template extraction                                       *)
(***************************************************************************)
\* A template can be determined for the call: the id given is registered,
\* or none is given and one is detected from the text.
TemplateDetermined ==
    \/ Registered(a_templates, a_tid)
    \/ a_tid = "<None>" /\ detect_document_type_of[a_templates, a_text] # "<None>"

\* C21: for a readable PDF and a registered template_id (or a text from
\* which a template is detected) extract_with_template reaches extract_data
\* and returns its result with status 'success'; it ends in PDFAnalyzerError
\* only when the text cannot be read or no template can be determined.
C21_ReturnsSuccessForKnownTemplate ==
    /\ a_pc = "returned" => a_result = "success"
    /\ a_pc = "raised" =>
           /\ a_exc = "PDFAnalyzerError"
           /\ ~a_readable \/ ~TemplateDetermined

(***************************************************************************)
(* The endpoints that take a PDF upload: validation of the upload, of the  *)
(* custom template, and the except clauses of the handlers                 *)
(***************************************************************************)
\* The routes whose handler starts with validate_pdf_file(file).
UploadEndpoints == {
    "/api/v1/analyze/full", "/api/v1/extract/basic", "/api/v1/extract/text",
    "/api/v1/extract/tables", "/api/v1/export/tables-excel", "/api/v1/export/excel",
    "/api/v1/export/json", "/api/v1/extract/template", "/api/v1/extract/custom" }

\* The file names of the uploads.
F_pdf == <<"a",".","p","d","f">>
F_PDF == <<"a",".","P","D","F">>
F_txt == <<"a",".","t","x","t">>
F_dotpdf == <<".","p","d","f">>
Filenames == {None, <<>>, F_pdf, F_PDF, F_txt, F_dotpdf}

ContentTypes == {"<None>", "application/pdf", "text/plain"}

\* Path(filename).suffix for a name without directories: from the last dot
\* on, when that dot is neither the first nor the last character.
Suffix(name) ==
    LET dots == {i \in 1..Len(name) : name[i] = "."}
        last == CHOOSE i \in dots : \A j \in dots : j <= i
    IN  IF dots = {} THEN <<>>
        ELSE IF last = 1 \/ last = Len(name) THEN <<>>
        ELSE SubSeq(name, last, Len(name))

\* An exception: its class, and the status_code of an HTTPException.
HTTPException(code) == [class |-> "HTTPException", status_code |-> code]
RaisedOf(cls) == [class |-> cls, status_code |-> 0]
NoException == RaisedOf("none")

\* validate_pdf_file(file) (validators.py, lines 16-48): the exception it
\* raises, NoException when the file passes.
validate_pdf_file(filename, content_type) ==
    IF ~Truthy(filename) THEN HTTPException(400)
    ELSE IF Lower(Suffix(filename)) # <<".","p","d","f">> THEN HTTPException(400)
    ELSE IF content_type # "<None>" /\ content_type # "application/pdf" THEN HTTPException(400)
    ELSE NoException

\* The template form fields of /api/v1/extract/custom.
T_NotJson == <<"{">>
T_NoName == <<"{","\"","f","i","e","l","d","s","\"",":","[","1","]","}">>
T_NoFields == <<"{","\"","t","e","m","p","l","a","t","e","_","n","a","m","e","\"",":","\"","t","\"","}">>
T_Full == <<"{","\"","t","e","m","p","l","a","t","e","_","n","a","m","e","\"",":","\"","t","\"",",","\"","f","i","e","l","d","s","\"",":","[","1","]","}">>
TemplateStrings == {T_NotJson, S_JEmptyList, S_JEmptyDict, T_NoName, T_NoFields, T_Full}

\* json.loads(template) for the template strings: whether it parses, the
\* kind of the parsed value and the keys of a parsed object whose value is
\* truthy.
template_loads(s) ==
    LET ok(kind, keys) == [outcome |-> "ok", kind |-> kind, truthy |-> keys]
    IN  CASE s = T_NotJson    -> [outcome |-> "JSONDecodeError", kind |-> "none", truthy |-> {}]
          [] s = S_JEmptyList -> ok("list", {})
          [] s = S_JEmptyDict -> ok("dict", {})
          [] s = T_NoName     -> ok("dict", {"fields"})
          [] s = T_NoFields   -> ok("dict", {"template_name"})
          [] s = T_Full       -> ok("dict", {"template_name", "fields"})

\* Lines 532-542 of extract_custom: the exception raised while the template
\* is parsed and validated; a parsed value that is no object has no get().
validate_template(s) ==
    LET parsed == template_loads(s)
    IN  IF parsed.outcome # "ok" THEN HTTPException(400)
        ELSE IF parsed.kind # "dict" THEN RaisedOf("AttributeError")
        ELSE IF "template_name" \notin parsed.truthy THEN HTTPException(400)
        ELSE IF "fields" \notin parsed.truthy THEN HTTPException(400)
        ELSE NoException

\* The except clauses of a handler, in order: the class caught and the
\* status of the HTTPException raised in its place.
Handlers(endpoint) ==
    << [catches |-> "ValidationError", status |-> 400],
       [catches |-> "PDFAnalyzerError",
        status |-> IF endpoint = "/api/v1/extract/basic" THEN 500 ELSE 422],
       [catches |-> "Exception", status |-> 500] >>

\* isinstance(e, cls): every class of the model derives from Exception
\* directly, HTTPException included.
IsInstance(e, cls) == e.class = cls \/ cls = "Exception"

\* The status of the response when e is raised inside the try of the
\* handler: that of the first except clause that catches e; an HTTPException
\* no clause catches is answered with its own status_code.
Respond(endpoint, e) ==
    LET hs == Handlers(endpoint)
        catching == {i \in 1..Len(hs) : IsInstance(e, hs[i].catches)}
    IN  IF catching # {}
        THEN hs[CHOOSE i \in catching : \A j \in catching : i <= j].status
        ELSE IF e.class = "HTTPException" THEN e.status_code
        ELSE 500

EndpointInit ==
    /\ h_endpoint \in UploadEndpoints
    /\ h_filename \in Filenames
    /\ h_content_type \in ContentTypes
    /\ h_template \in (IF h_endpoint = "/api/v1/extract/custom" THEN TemplateStrings ELSE {<<>>})
    /\ h_pc = "received"
    /\ h_raised = "none"
    /\ h_status = 0
    /\ TableIdle
    /\ ClassifierIdle
    /\ SegmenterIdle
    /\ CoercerIdle
    /\ ExtractorIdle
    /\ TypedIdle
    /\ ManagerIdle
    /\ DocumentIdle
    /\ AnalyzerIdle
    /\ ServiceIdle
    /\ InvoiceIdle

\* The handler ends with exception e raised inside its try.
EndWith(e) ==
    /\ h_pc' = "responded"
    /\ h_raised' = e.class
    /\ h_status' = Respond(h_endpoint, e)

\* validate_pdf_file(file), the first statement of the try of every handler.
ValidateFile ==
    /\ h_pc = "received"
    /\ LET e == validate_pdf_file(h_filename, h_content_type)
       IN  IF e # NoException THEN EndWith(e)
           ELSE /\ h_pc' = IF h_endpoint = "/api/v1/extract/custom" THEN "validated" ELSE "parsed"
                /\ UNCHANGED <<h_raised, h_status>>
    /\ UNCHANGED <<h_endpoint, h_filename, h_content_type, h_template>>
    /\ UNCHANGED <<tvars, cvars, svars, kvars, xvars, pvars, mvars, dvars, avars, lvars, ivars>>

\* extract_custom, lines 532-542: the template is parsed and validated.
ParseTemplate ==
    /\ h_pc = "validated"
    /\ LET e == validate_template(h_template)
       IN  IF e # NoException THEN EndWith(e)
           ELSE /\ h_pc' = "parsed"
                /\ UNCHANGED <<h_raised, h_status>>
    /\ UNCHANGED <<h_endpoint, h_filename, h_content_type, h_template>>
    /\ UNCHANGED <<tvars, cvars, svars, kvars, xvars, pvars, mvars, dvars, avars, lvars, ivars>>

\* The rest of the try: the file is saved, its size validated and the PDF
\* processed; outcome is "ok" or the class of the exception raised.
Process(outcome) ==
    /\ h_pc = "parsed"
    /\ IF outcome = "ok"
       THEN /\ h_pc' = "responded"
            /\ h_status' = 200
            /\ UNCHANGED h_raised
       ELSE EndWith(RaisedOf(outcome))
    /\ UNCHANGED <<h_endpoint, h_filename, h_content_type, h_template>>
    /\ UNCHANGED <<tvars, cvars, svars, kvars, xvars, pvars, mvars, dvars, avars, lvars, ivars>>

EndpointNext ==
    \/ ValidateFile
    \/ ParseTemplate
    \/ \E outcome \in {"ok", "ValidationError", "PDFAnalyzerError", "Exception"} : Process(outcome)

SpecEndpoint == EndpointInit /\ [][EndpointNext]_vars

(***************************************************************************)
(* Properties of the upload endpoints                                      *)
(***************************************************************************)
\* The upload fails validate_pdf_file: no filename, an extension other
\* than .pdf, or a content type other than application/pdf.
BadUpload ==
    \/ ~Truthy(h_filename)
    \/ Lower(Suffix(h_filename)) # <<".","p","d","f">>
    \/ h_content_type \notin {"<None>", "application/pdf"}

\* The template is not valid JSON or lacks template_name or fields.
BadTemplate ==
    \/ template_loads(h_template).outcome # "ok"
    \/ "template_name" \notin template_loads(h_template).truthy
    \/ "fields" \notin template_loads(h_template).truthy

\* C26: on every upload endpoint a request whose file fails
\* validate_pdf_file, and on /api/v1/extract/custom also a request whose
\* template is not valid JSON or lacks template_name or fields, is answered
\* with HTTP status 400.
C26_InvalidRequestGets400 ==
    (h_pc = "responded"
        /\ (BadUpload \/ (h_endpoint = "/api/v1/extract/custom" /\ BadTemplate))) =>
        h_status = 400

(***************************************************************************)
(* LLMService: __new__, __init__ and get_llm_service, called by several    *)
(* threads; a thread may be pre-empted between any two statements (no lock *)
(* is taken anywhere in llm_service.py)                                    *)
(***************************************************************************)
\* Number of concurrent callers, and of calls each of them makes.
MaxCallers == 2
MaxCalls == 2

Callers == 1..MaxCallers

\* The value kept for every caller.
OfCallers(v) == [t \in Callers |-> v]

ServiceInit ==
    /\ _instance = 0
    /\ _initialized = FALSE
    /\ _llm_service_instance = 0
    /\ l_objects = 0
    /\ l_loads = 0
    /\ l_model = <<>>
    /\ l_pc = OfCallers("idle")
    /\ l_self = OfCallers(0)
    /\ l_via = OfCallers("none")
    /\ l_calls = OfCallers(0)
    /\ l_yielded = {}
    /\ TableIdle
    /\ ClassifierIdle
    /\ SegmenterIdle
    /\ CoercerIdle
    /\ ExtractorIdle
    /\ TypedIdle
    /\ ManagerIdle
    /\ DocumentIdle
    /\ AnalyzerIdle
    /\ EndpointIdle
    /\ InvoiceIdle

\* What an action of caller t leaves alone besides the service state it names.
Goto(t, pc) == l_pc' = [l_pc EXCEPT ![t] = pc]

\* Caller t starts LLMService(...) or get_llm_service().
Call(t, via) ==
    /\ l_pc[t] = "idle"
    /\ l_calls[t] < MaxCalls
    /\ l_calls' = [l_calls EXCEPT ![t] = @ + 1]
    /\ l_via' = [l_via EXCEPT ![t] = via]
    /\ Goto(t, IF via = "get_llm_service" THEN "getter_test" ELSE "new_test")
    /\ UNCHANGED <<_instance, _initialized, _llm_service_instance, l_objects, l_loads, l_model, l_self, l_yielded>>
    /\ UNCHANGED <<tvars, cvars, svars, kvars, xvars, pvars, mvars, dvars, avars, hvars, ivars>>

\* get_llm_service, line 407: `if _llm_service_instance is None`.
GetterTest(t) ==
    /\ l_pc[t] = "getter_test"
    /\ Goto(t, IF _llm_service_instance = 0 THEN "new_test" ELSE "getter_return")
    /\ UNCHANGED <<_instance, _initialized, _llm_service_instance, l_objects, l_loads, l_model, l_self, l_via, l_calls, l_yielded>>
    /\ UNCHANGED <<tvars, cvars, svars, kvars, xvars, pvars, mvars, dvars, avars, hvars, ivars>>

\* __new__, line 22: `if cls._instance is None`; otherwise line 27 returns
\* the existing instance.
NewTest(t) ==
    /\ l_pc[t] = "new_test"
    /\ IF _instance = 0
       THEN /\ Goto(t, "new_create")
            /\ UNCHANGED l_self
       ELSE /\ l_self' = [l_self EXCEPT ![t] = _instance]
            /\ Goto(t, "init_test")
    /\ UNCHANGED <<_instance, _initialized, _llm_service_instance, l_objects, l_loads, l_model, l_via, l_calls, l_yielded>>
    /\ UNCHANGED <<tvars, cvars, svars, kvars, xvars, pvars, mvars, dvars, avars, hvars, ivars>>

\* __new__, lines 24 and 27: a new object is allocated and stored in
\* cls._instance, then returned.
NewCreate(t) ==
    /\ l_pc[t] = "new_create"
    /\ l_objects' = l_objects + 1
    /\ l_model' = Append(l_model, "unset")
    /\ _instance' = l_objects + 1
    /\ l_self' = [l_self EXCEPT ![t] = l_objects + 1]
    /\ Goto(t, "init_test")
    /\ UNCHANGED <<_initialized, _llm_service_instance, l_loads, l_via, l_calls, l_yielded>>
    /\ UNCHANGED <<tvars, cvars, svars, kvars, xvars, pvars, mvars, dvars, avars, hvars, ivars>>

\* __init__, lines 37-43: `if LLMService._initialized: return`; otherwise
\* model and processor of self are set to None.
InitTest(t) ==
    /\ l_pc[t] = "init_test"
    /\ IF _initialized
       THEN /\ Goto(t, "constructed")
            /\ UNCHANGED l_model
       ELSE /\ l_model' = [l_model EXCEPT ![l_self[t]] = "None"]
            /\ Goto(t, "load")
    /\ UNCHANGED <<_instance, _initialized, _llm_service_instance, l_objects, l_loads, l_self, l_via, l_calls, l_yielded>>
    /\ UNCHANGED <<tvars, cvars, svars, kvars, xvars, pvars, mvars, dvars, avars, hvars, ivars>>

\* __init__, line 44: self._load_model() (lines 47-76), which catches its
\* own failure and leaves model and processor at None.
LoadModel(t, loaded) ==
    /\ l_pc[t] = "load"
    /\ l_loads' = l_loads + 1
    /\ l_model' = [l_model EXCEPT ![l_self[t]] = IF loaded THEN "loaded" ELSE "None"]
    /\ Goto(t, "set_initialized")
    /\ UNCHANGED <<_instance, _initialized, _llm_service_instance, l_objects, l_self, l_via, l_calls, l_yielded>>
    /\ UNCHANGED <<tvars, cvars, svars, kvars, xvars, pvars, mvars, dvars, avars, hvars, ivars>>

\* __init__, line 45: LLMService._initialized = True.
SetInitialized(t) ==
    /\ l_pc[t] = "set_initialized"
    /\ _initialized' = TRUE
    /\ Goto(t, "constructed")
    /\ UNCHANGED <<_instance, _llm_service_instance, l_objects, l_loads, l_model, l_self, l_via, l_calls, l_yielded>>
    /\ UNCHANGED <<tvars, cvars, svars, kvars, xvars, pvars, mvars, dvars, avars, hvars, ivars>>

\* LLMService(...) has returned: to the caller, or to get_llm_service,
\* which stores the object in the module global (line 409).
Constructed(t) ==
    /\ l_pc[t] = "constructed"
    /\ IF l_via[t] = "get_llm_service"
       THEN /\ _llm_service_instance' = l_self[t]
            /\ Goto(t, "getter_return")
            /\ UNCHANGED l_yielded
       ELSE /\ l_yielded' = l_yielded \cup {l_self[t]}
            /\ Goto(t, "idle")
            /\ UNCHANGED _llm_service_instance
    /\ UNCHANGED <<_instance, _initialized, l_objects, l_loads, l_model, l_self, l_via, l_calls>>
    /\ UNCHANGED <<tvars, cvars, svars, kvars, xvars, pvars, mvars, dvars, avars, hvars, ivars>>

\* get_llm_service, line 410: return _llm_service_instance.
GetterReturn(t) ==
    /\ l_pc[t] = "getter_return"
    /\ l_yielded' = l_yielded \cup {_llm_service_instance}
    /\ Goto(t, "idle")
    /\ UNCHANGED <<_instance, _initialized, _llm_service_instance, l_objects, l_loads, l_model, l_self, l_via, l_calls>>
    /\ UNCHANGED <<tvars, cvars, svars, kvars, xvars, pvars, mvars, dvars, avars, hvars, ivars>>

ServiceNext ==
    \E t \in Callers :
        \/ \E via \in {"LLMService", "get_llm_service"} : Call(t, via)
        \/ GetterTest(t)
        \/ NewTest(t)
        \/ NewCreate(t)
        \/ InitTest(t)
        \/ \E loaded \in BOOLEAN : LoadModel(t, loaded)
        \/ SetInitialized(t)
        \/ Constructed(t)
        \/ GetterReturn(t)

SpecService == ServiceInit /\ [][ServiceNext]_vars

(***************************************************************************)
(* Properties of the LLMService singleton                                  *)
(***************************************************************************)
\* C27: after any sequence or interleaving of LLMService(...) constructions
\* and get_llm_service() calls by one or several concurrent callers, all of
\* them yield the same instance and _load_model has executed at most once,
\* also when the first load failed.
C27_OneInstanceOneLoad ==
    /\ Cardinality(l_yielded) <= 1
    /\ l_loads <= 1

(***************************************************************************)
(* InvoiceExtractor.extract_sender_and_recipient: one combined call of the *)
(* generative model, then the fallback with one call per entity            *)
(***************************************************************************)
\* What a call of self.llm.generate does: it raises, or it returns one of
\* these texts:
\*   good           {"sender": {"name": "ABC LTD", "address": "x", "tax_office": "Kadikoy"},
\*                   "recipient": {"name": "SAYIN Jane Doe", "address": "y", "tax_office": null}}
\*   fenced         the same between ```json and ```
\*   short          {"sender": {"name": "Mahalle 1", "tax_office": "vergi dairesi"},
\*                   "recipient": {"name": "ab"}}
\*   not objects    {"sender": "x", "recipient": 1}
\*   garbage        garbage
\*   single         {"name": "  ABC  LTD ", "address": "a", "tax_office": "vergi dairesi"}
\*   single null    {"name": null, "tax_office": "Kadikoy"}
\*   bad json       {x}
Responses == {"raises", "good", "fenced", "short", "not objects", "garbage",
              "single", "single null", "bad json"}

Info(name, address, tax_office) == [name |-> name, address |-> address, tax_office |-> tax_office]
NullInfo == Info(None, None, None)
Mapping(sender, recipient) == [kind |-> "dict", sender |-> sender, recipient |-> recipient]
NoMapping == [kind |-> "None"]

N_AbcLtd == <<"A","B","C"," ","L","T","D">>
N_Kadikoy == <<"K","a","d","i","k","o","y">>
N_VergiDairesi == <<"v","e","r","g","i"," ","d","a","i","r","e","s","i">>

\* _parse_sender_recipient_json(response) (lines 218-243): the regular
\* expression, json.loads and the chain of get() on the texts above; every
\* exception is caught and gives None.
_parse_sender_recipient_json(response) ==
    CASE response \in {"good", "fenced"} ->
             Mapping(Info(N_AbcLtd, <<"x">>, N_Kadikoy),
                     Info(<<"S","A","Y","I","N"," ","J","a","n","e"," ","D","o","e">>, <<"y">>, None))
      [] response = "short" ->
             Mapping(Info(<<"M","a","h","a","l","l","e"," ","1">>, None, N_VergiDairesi),
                     Info(<<"a","b">>, None, None))
      [] OTHER -> NoMapping

\* Lines 164-166 of extract_single_entity on the texts above: the first
\* {...} without a closing brace inside, parsed; "none" when nothing
\* matches, "JSONDecodeError" when json.loads raises.
single_entity_json(response) ==
    CASE response \in {"good", "fenced", "short", "bad json"} ->
             [outcome |-> "JSONDecodeError", parsed |-> NullInfo]
      [] response = "garbage" -> [outcome |-> "none", parsed |-> NullInfo]
      [] response = "not objects" -> [outcome |-> "ok", parsed |-> NullInfo]
      [] response = "single" ->
             [outcome |-> "ok",
              parsed |-> Info(<<" "," ","A","B","C"," "," ","L","T","D"," ">>, <<"a">>, N_VergiDairesi)]
      [] response = "single null" -> [outcome |-> "ok", parsed |-> Info(None, None, N_Kadikoy)]

\* re.sub(r'\s+', ' ', s)
RECURSIVE CollapseSpaces(_)
CollapseSpaces(s) ==
    IF s = <<>> THEN <<>>
    ELSE IF Head(s) \in Whitespace THEN <<" ">> \o CollapseSpaces(LStrip(s))
    ELSE <<Head(s)>> \o CollapseSpaces(Tail(s))

address_indicators == <<
    <<"m","a","h","a","l","l","e">>, <<"m","a","h",".">>, <<"s","o","k","a","k">>,
    <<"s","o","k",".">>, <<"c","a","d","d","e">>, <<"c","a","d",".">>,
    <<"b","u","l","v","a","r">>, <<"n","o",":">>, <<"k","a","t",":">>,
    <<"d","a","i","r","e",":">>, <<"/","/">> >>

\* _clean_entity_name(name) (lines 245-266)
_clean_entity_name(name) ==
    IF ~Truthy(name) THEN None
    ELSE LET cleaned == CollapseSpaces(Strip(Str(name)))
             is_address == \E k \in 1..Len(address_indicators) :
                               Contains(address_indicators[k], Lower(cleaned))
         IN  IF is_address \/ Len(cleaned) < 3 THEN None ELSE cleaned

\* \b(?:SAYIN|Sayin|sayin)\b, whatever the case, matches at position i of s.
SayinAt(s, i) ==
    /\ i + 4 <= Len(s)
    /\ LowerChar(s[i]) = <<"s">>
    /\ LowerChar(s[i + 1]) = <<"a">>
    /\ LowerChar(s[i + 2]) = <<"y">>
    /\ LowerChar(s[i + 3]) \in {<<"i">>, <<"i_dotless">>} \/ s[i + 3] = "I_dot"
    /\ LowerChar(s[i + 4]) = <<"n">>
    /\ i = 1 \/ ~WordChar(s[i - 1])
    /\ i + 4 = Len(s) \/ ~WordChar(s[i + 5])

\* re.sub(r'\b(?:SAYIN|...)\b', '', s, flags=re.IGNORECASE) from position i on
RECURSIVE RemoveSayin(_, _)
RemoveSayin(s, i) ==
    IF i > Len(s) THEN <<>>
    ELSE IF SayinAt(s, i) THEN RemoveSayin(s, i + 5)
    ELSE <<s[i]>> \o RemoveSayin(s, i + 1)

\* The cleaning of a tax office (lines 98-103 and 175-178).
clean_tax_office(tax_office) ==
    IF ~Truthy(tax_office) THEN tax_office
    ELSE LET tax_office_lower == Strip(Lower(Str(tax_office)))
         IN  IF \/ tax_office_lower \in {N_VergiDairesi, <<"t","a","x"," ","o","f","f","i","c","e">>,
                                         <<"n","u","l","l">>, <<"n","o","n","e">>, <<>>}
                \/ Len(tax_office_lower) < 3
             THEN None ELSE tax_office

\* Lines 73-114 once generate has returned response: the cleaned mapping,
\* or "fallback" when the parsed result is None or an exception is caught.
\* re.sub on a recipient name that _clean_entity_name turned into None
\* raises TypeError, which the handler of line 110 catches.
combined_result(response) ==
    LET parsed == _parse_sender_recipient_json(response)
    IN  IF parsed = NoMapping THEN [kind |-> "fallback", caught |-> "none"]
        ELSE IF Truthy(parsed.recipient.name) /\ _clean_entity_name(parsed.recipient.name) = None
        THEN [kind |-> "fallback", caught |-> "TypeError"]
        ELSE Mapping(
                 Info(IF Truthy(parsed.sender.name) THEN _clean_entity_name(parsed.sender.name)
                      ELSE parsed.sender.name,
                      parsed.sender.address, clean_tax_office(parsed.sender.tax_office)),
                 Info(IF Truthy(parsed.recipient.name)
                      THEN CollapseSpaces(Strip(RemoveSayin(_clean_entity_name(parsed.recipient.name), 1)))
                      ELSE parsed.recipient.name,
                      parsed.recipient.address, clean_tax_office(parsed.recipient.tax_office)))

\* extract_single_entity (lines 116-183) once generate has returned
\* response or raised: every exception of the try is caught.
extract_single_entity(response) ==
    IF response = "raises" THEN NullInfo
    ELSE LET found == single_entity_json(response)
         IN  IF found.outcome # "ok" THEN NullInfo
             ELSE Info(_clean_entity_name(found.parsed.name), found.parsed.address,
                       clean_tax_office(found.parsed.tax_office))

\* The header layouts: two lines without greeting, a greeting on the second
\* line, a single line.
L_Sayin == <<"A","B","C","\n","S","A","Y","I","N"," ","J","a","n","e">>
L_One == <<"A","B","C">>
Layouts == {H_Layout, L_Sayin, L_One}

\* sep.join(parts)
RECURSIVE JoinWith(_, _)
JoinWith(parts, sep) ==
    IF parts = <<>> THEN <<>>
    ELSE IF Len(parts) = 1 THEN parts[1]
    ELSE parts[1] \o sep \o JoinWith(Tail(parts), sep)

\* match.start() of re.compile(r'sa\s*y[i i_dotless I_dot]n', re.IGNORECASE).search(text),
\* counted from 1; 0 when there is no match.
sayin_start(text) ==
    LET at(i) == \E k \in 0..Len(text) :
                     /\ i + 4 + k <= Len(text)
                     /\ LowerChar(text[i]) = <<"s">>
                     /\ LowerChar(text[i + 1]) = <<"a">>
                     /\ \A j \in (i + 2)..(i + 1 + k) : text[j] \in Whitespace
                     /\ LowerChar(text[i + 2 + k]) = <<"y">>
                     /\ LowerChar(text[i + 3 + k]) \in {<<"i">>, <<"i_dotless">>} \/ text[i + 3 + k] = "I_dot"
                     /\ LowerChar(text[i + 4 + k]) = <<"n">>
        hits == {i \in 1..Len(text) : at(i)}
    IN  IF hits = {} THEN 0 ELSE CHOOSE i \in hits : \A j \in hits : i <= j

\* sender_text and recipient_text of _fallback_separate_extraction
\* (lines 270-283): split at the greeting, otherwise at the middle line.
split_texts(text) ==
    LET start == sayin_start(text)
        lines == Split(text, "\n")
        mid == Len(lines) \div 2
    IN  IF start > 0
        THEN [sender_text |-> Strip(SubSeq(text, 1, start - 1)),
              recipient_text |-> Strip(SubSeq(text, start, Len(text)))]
        ELSE [sender_text |-> JoinWith(SubSeq(lines, 1, mid), <<"\n">>),
              recipient_text |-> JoinWith(SubSeq(lines, mid + 1, Len(lines)), <<"\n">>)]

InvoiceInit ==
    /\ i_available \in BOOLEAN
    /\ i_layout \in Layouts
    /\ i_text = <<>>
    /\ i_pc = "start"
    /\ i_calls = 0
    /\ i_response = "none"
    /\ i_sender = NullInfo
    /\ i_result = NoMapping
    /\ i_exc = "none"
    /\ TableIdle
    /\ ClassifierIdle
    /\ SegmenterIdle
    /\ CoercerIdle
    /\ ExtractorIdle
    /\ TypedIdle
    /\ ManagerIdle
    /\ DocumentIdle
    /\ AnalyzerIdle
    /\ EndpointIdle
    /\ ServiceIdle

\* Lines 36-43: without a loaded model the null mapping is returned;
\* otherwise the header text is cleaned and the prompt built.
Start ==
    /\ i_pc = "start"
    /\ IF i_available
       THEN /\ i_pc' = "combined"
            /\ UNCHANGED i_result
       ELSE /\ i_pc' = "returned"
            /\ i_result' = Mapping(NullInfo, NullInfo)
    /\ UNCHANGED <<i_available, i_layout, i_text, i_calls, i_response, i_sender, i_exc>>
    /\ UNCHANGED <<tvars, cvars, svars, kvars, xvars, pvars, mvars, dvars, avars, hvars, lvars>>

\* Lines 72-114: the combined call; response is what generate does.
CombinedCall(response) ==
    /\ i_pc = "combined"
    /\ i_calls' = i_calls + 1
    /\ i_response' = response
    /\ IF response # "raises" /\ combined_result(response).kind = "dict"
       THEN /\ i_result' = combined_result(response)
            /\ i_pc' = "returned"
       ELSE /\ i_pc' = "fallback_sender"
            /\ UNCHANGED i_result
    /\ UNCHANGED <<i_available, i_layout, i_text, i_sender, i_exc>>
    /\ UNCHANGED <<tvars, cvars, svars, kvars, xvars, pvars, mvars, dvars, avars, hvars, lvars>>

\* _fallback_separate_extraction, lines 270-285: the text is split and
\* extract_single_entity called for the sender.
FallbackSender(response) ==
    /\ i_pc = "fallback_sender"
    /\ i_calls' = i_calls + 1
    /\ i_response' = response
    /\ i_text' = split_texts(i_layout).sender_text
    /\ i_sender' = extract_single_entity(response)
    /\ i_pc' = "fallback_recipient"
    /\ UNCHANGED <<i_available, i_layout, i_result, i_exc>>
    /\ UNCHANGED <<tvars, cvars, svars, kvars, xvars, pvars, mvars, dvars, avars, hvars, lvars>>

\* A fallback that asks the model once more when the call for the
\* recipient gave nothing.
FallbackRecipient_Retries(response) ==
    /\ i_pc = "fallback_recipient"
    /\ i_calls' = IF extract_single_entity(response) = NullInfo THEN i_calls + 2 ELSE i_calls + 1
    /\ i_response' = response
    /\ i_text' = split_texts(i_layout).recipient_text
    /\ i_result' = Mapping(i_sender, extract_single_entity(response))
    /\ i_pc' = "returned"
    /\ UNCHANGED <<i_available, i_layout, i_sender, i_exc>>
    /\ UNCHANGED <<tvars, cvars, svars, kvars, xvars, pvars, mvars, dvars, avars, hvars, lvars>>

\* _fallback_separate_extraction, lines 286-291: extract_single_entity for
\* the recipient, and the mapping of both is returned.
FallbackRecipient(response) ==
    /\ i_pc = "fallback_recipient"
    /\ i_calls' = i_calls + 1
    /\ i_response' = response
    /\ i_text' = split_texts(i_layout).recipient_text
    /\ i_result' = Mapping(i_sender, extract_single_entity(response))
    /\ i_pc' = "returned"
    /\ UNCHANGED <<i_available, i_layout, i_sender, i_exc>>
    /\ UNCHANGED <<tvars, cvars, svars, kvars, xvars, pvars, mvars, dvars, avars, hvars, lvars>>

InvoiceNext ==
    \/ Start
    \/ \E response \in Responses : CombinedCall(response)
    \/ \E response \in Responses : FallbackSender(response)
    \/ \E response \in Responses : FallbackRecipient(response)

SpecInvoice == InvoiceInit /\ [][InvoiceNext]_vars

(***************************************************************************)
(* Properties of sender/recipient extraction                               *)
(***************************************************************************)
\* A value of the result: a string, or null.
ValueOrNull(v) == v = None \/ (v \in Seq(STRING))

\* The three entries of an entity of the result.
IsInfo(entity) ==
    /\ DOMAIN entity = {"name", "address", "tax_office"}
    /\ ValueOrNull(entity.name)
    /\ ValueOrNull(entity.address)
    /\ ValueOrNull(entity.tax_office)

\* C30: extract_sender_and_recipient never raises and always returns a
\* mapping with 'sender' and 'recipient', each holding name, address and
\* tax_office (a value or null), whatever the model returns or raises; it
\* calls generate at most three times per invocation.
C30_NeverRaisesAtMostThreeCalls ==
    /\ i_pc # "raised"
    /\ i_exc = "none"
    /\ i_calls <= 3
    /\ i_pc = "returned" =>
           /\ i_result.kind = "dict"
           /\ IsInfo(i_result.sender)
           /\ IsInfo(i_result.recipient)

\* The combined call raised, the fallback call for the sender raised too,
\* the third call answered with a single entity, and the mapping was
\* returned after three calls of generate.
C30_Witness ==
    /\ i_pc = "returned"
    /\ i_calls = 3
    /\ i_response = "single"
    /\ i_sender = NullInfo
    /\ i_result.kind = "dict"
    /\ i_result.recipient.name = N_AbcLtd

====
